---- MODULE Spec2Model ----
(***************************************************************************)
(* A model of the incremental image-processing algorithms of the stippler  *)
(* application: the Algorithm contract (initialize / increment / output /  *)
(* isFinished), the SLIC superpixel generator with its post-processing,    *)
(* the binary max-heap it uses, the SuperpixelFilter / LocalDataFilter     *)
(* pair that drives an embedded generator, and the two simple algorithms   *)
(* MidtoneFilter and Rgb2LabGreyAlgorithm.                                 *)
(*                                                                         *)
(* Every method is an operator from the object's state (a record of its    *)
(* data members) to the state after the call.  What a method reads from    *)
(* the pixel values of the image (floating-point distances, lightness      *)
(* ranges) or from the allocator (a null QImage) is an argument of the     *)
(* operator, and the actions draw it from the environment.                 *)
(***************************************************************************)
EXTENDS Integers, Sequences, FiniteSets, TLC

(***************************************************************************)
(* Size of the model.  The image is Width x Height pixels.  The number of  *)
(* clusters and the granularities are scaled down from the values of the   *)
(* source (500, 10, 1000, 15, 10, 10000) so that quantum boundaries fall   *)
(* inside every stage of a Width x Height image.                           *)
(***************************************************************************)
Width == 3
Height == 2
SLIC_DEFAULT_K == 2
SLIC_CLUSTER_GRANULARITY == 1
SLIC_PIXEL_GRANULARITY == 4
SLIC_MAX_KMEANS_ITERATIONS == 4
LOCALDATAFILTER_CLUSTER_GRANULARITY == 1
MaxScoreLevel == 1

LOCALDATAFILTER_MAX_HISTOGRAM_BINS == 256
LOCALDATAFILTER_MIN_HISTOGRAM_BINS_PER_SUPERPIXEL == 3
LOCALDATAFILTER_MIN_HISTOGRAM_BINS == 10
MIDTONEFILTER_PIXEL_GRANULARITY == 3
MaxRgbProgress == 5

SUPERPIXELLATION_NONE_LABEL == -1
BINARYHEAP_INVALID_INDEX == -1
UNINIT == -99

\* The image the Superpixel constructor is checked on.
SuperpixelWidth == 4
SuperpixelHeight == 3

\* The histograms chooseOtsuThreshold is checked on: OtsuBins bins that
\* hold between 1 and OtsuMaxSuperpixels superpixels.
OtsuBins == 4
OtsuMaxSuperpixels == 5
\* Superpixellation objects sharing the data of one segmentation.
MaxInstances == 3
\* The largest superpixellation whose number of histogram bins is chosen.
MaxHistogramSuperpixels == 800
\* The calls of add on one heap, and the largest size of an element.
MaxInsertions == 4
MaxPairSize == 2
\* The images and the numbers of clusters initializeCenters is checked on.
MaxSeedWidth == 5
MaxSeedHeight == 4
MaxSeedK == 7
\* The calls of processImages and of stopProcess on one AlgorithmThread, and
\* the calls of increment within which its algorithm finishes or fails.
MaxAlgorithms == 2
MaxStops == 2
MaxThreadIncrements == 2

pixelCount == Width * Height
Pixels == 0 .. (pixelCount - 1)
kParam == SLIC_DEFAULT_K
Clusters == 0 .. (kParam - 1)

Max(x, y) == IF x > y THEN x ELSE y
SetMin(S) == CHOOSE x \in S : \A y \in S : x <= y

\* A null pointer to an array; an allocated array is a function on 0..n-1.
NULL == << >>
Arr(n, v) == [i \in 0 .. (n - 1) |-> v]
ArrLen(f) == Cardinality(DOMAIN f)
Fill(f, v) == [i \in DOMAIN f |-> v]

(***************************************************************************)
(* ImageData: index conversion and 4-neighbour enumeration.                *)
(***************************************************************************)
\* The dimensions of an ImageData object.
ImageData(width, height) == [width |-> width, height |-> height]

kToX(img, p) == p % img.width
kToY(img, p) == p \div img.width
xyToK(img, x, y) == img.width * y + x

\* ImageData::fourNeighbours: Right, Up, Left, Bottom, each only if inside
\* the image.
fourNeighboursOf(img, p) ==
    LET x == kToX(img, p)
        y == kToY(img, p)
    IN  (IF x + 1 < img.width THEN << xyToK(img, x + 1, y) >> ELSE << >>)
        \o (IF y - 1 >= 0 THEN << xyToK(img, x, y - 1) >> ELSE << >>)
        \o (IF x - 1 >= 0 THEN << xyToK(img, x - 1, y) >> ELSE << >>)
        \o (IF y + 1 < img.height THEN << xyToK(img, x, y + 1) >> ELSE << >>)

\* The image the algorithms are initialized with.
inputImage == ImageData(Width, Height)

\* fourNeighbours on the input image.
fourNeighbours(p) == fourNeighboursOf(inputImage, p)

(***************************************************************************)
(* ods::BinaryHeap<SizeLabelsPair, pxind>                                  *)
(***************************************************************************)
SizeLabelsPair(clusterLabel, componentLabel) ==
    [size |-> 0, cluster |-> clusterLabel, component |-> componentLabel]

SizeLabelsPairEmpty ==
    SizeLabelsPair(SUPERPIXELLATION_NONE_LABEL, SUPERPIXELLATION_NONE_LABEL)

\* SizeLabelsPair::operator<
PairLess(lhs, rhs) ==
    IF lhs.cluster < rhs.cluster THEN FALSE
    ELSE IF lhs.cluster > rhs.cluster THEN TRUE
    ELSE lhs.size < rhs.size

compare(x, y) == IF PairLess(x, y) THEN -1 ELSE IF PairLess(y, x) THEN 1 ELSE 0

heapLeft(i) == 2 * i + 1
heapRight(i) == 2 * i + 2
heapParent(i) == (i - 1) \div 2

HeapNull == [a |-> NULL, indexToA |-> NULL, aToIndex |-> NULL, n |-> -1, nIndex |-> -1]

BinaryHeapNew ==
    [a |-> Arr(1, SizeLabelsPairEmpty), indexToA |-> Arr(1, UNINIT),
     aToIndex |-> Arr(1, UNINIT), n |-> 0, nIndex |-> 0]

\* A new array of the given length holding the first `count` elements of f.
CopyInto(f, newLen, count, blank) ==
    [i \in 0 .. (newLen - 1) |-> IF i < count THEN f[i] ELSE blank]

heapResize(h, grow) ==
    LET len == Max(2 * h.n, 1)
    IN  [h EXCEPT !.a = CopyInto(h.a, len, h.n, SizeLabelsPairEmpty),
                  !.aToIndex = CopyInto(h.aToIndex, len, h.n, UNINIT),
                  !.indexToA = IF grow
                               THEN CopyInto(h.indexToA, Max(2 * h.nIndex, 1), h.nIndex, UNINIT)
                               ELSE @]

\* a.swap(i, j); indexToA.swap(aToIndex[i], aToIndex[j]); aToIndex.swap(i, j)
heapSwap(h, i, j) ==
    LET hi == h.aToIndex[i]
        hj == h.aToIndex[j]
    IN  [h EXCEPT !.a = [@ EXCEPT ![i] = h.a[j], ![j] = h.a[i]],
                  !.indexToA = [@ EXCEPT ![hi] = h.indexToA[hj], ![hj] = h.indexToA[hi]],
                  !.aToIndex = [@ EXCEPT ![i] = hj, ![j] = hi]]

RECURSIVE bubbleUp(_, _)
bubbleUp(h, i) ==
    LET p == heapParent(i)
    IN  IF i > 0 /\ compare(h.a[i], h.a[p]) > 0
        THEN bubbleUp(heapSwap(h, i, p), p)
        ELSE h

\* A variant of trickleDown that looks at the left child only.
RECURSIVE trickleDownLeftOnly(_, _)
trickleDownLeftOnly(h, i) ==
    LET l == heapLeft(i)
        j == IF l < h.n /\ compare(h.a[l], h.a[i]) > 0 THEN l ELSE -1
    IN  IF j >= 0 THEN trickleDownLeftOnly(heapSwap(h, i, j), j) ELSE h

RECURSIVE trickleDown(_, _)
trickleDown(h, i) ==
    LET r == heapRight(i)
        l == heapLeft(i)
        j == IF r < h.n /\ compare(h.a[r], h.a[i]) > 0
             THEN (IF compare(h.a[l], h.a[r]) > 0 THEN l ELSE r)
             ELSE (IF l < h.n /\ compare(h.a[l], h.a[i]) > 0 THEN l ELSE -1)
    IN  IF j >= 0 THEN trickleDown(heapSwap(h, i, j), j) ELSE h

\* The heap after add(x); the handle returned is the old nIndex.
heapAdd(h, x) ==
    LET h1 == IF h.n + 1 > ArrLen(h.a) THEN heapResize(h, TRUE) ELSE h
        h2 == [h1 EXCEPT !.a[h1.n] = x,
                         !.n = h1.n + 1,
                         !.indexToA[h1.nIndex] = h1.n,
                         !.aToIndex[h1.n] = h1.nIndex]
        h3 == bubbleUp(h2, h2.n - 1)
    IN  [h3 EXCEPT !.nIndex = @ + 1]

\* The element remove() returns.
heapMax(h) == h.a[0]

\* The heap after remove().
heapRemove(h) ==
    LET n1 == h.n - 1
        h1 == [h EXCEPT !.a[0] = h.a[n1], !.n = n1]
        h2 == [h1 EXCEPT !.indexToA[h1.aToIndex[n1]] = 0]
        h3 == [h2 EXCEPT !.indexToA[h2.aToIndex[0]] = BINARYHEAP_INVALID_INDEX]
        h4 == [h3 EXCEPT !.aToIndex[0] = h3.aToIndex[n1]]
        h5 == [h4 EXCEPT !.aToIndex[n1] = BINARYHEAP_INVALID_INDEX]
        h6 == trickleDown(h5, 0)
    IN  IF 3 * h6.n < ArrLen(h6.a) THEN heapResize(h6, FALSE) ELSE h6

\* operator[](i).size += 1 followed by increase(i), i a handle.
heapGrowAndIncrease(h, i) ==
    LET heapIndex == h.indexToA[i]
        h1 == [h EXCEPT !.a[heapIndex].size = @ + 1]
    IN  bubbleUp(h1, heapIndex)

(***************************************************************************)
(* Algorithm (base class).  An object is a record; the fields below are    *)
(* the data members every algorithm inherits.  input is "null" or "own"    *)
(* (the object owns an ImageData); outputImage is "null", "valid" or       *)
(* "nullimg" (a QImage whose isNull() is true, because its pixel buffer    *)
(* could not be allocated).                                                *)
(***************************************************************************)
AlgorithmNew ==
    [input |-> "null", outputIsEnabled |-> TRUE, outputImage |-> "null",
     failed |-> FALSE, finished |-> FALSE]

\* Algorithm::cleanup, resetting outputIsEnabled as well.
Algorithm_cleanupEnablingOutput(o) ==
    [o EXCEPT !.input = "null", !.failed = FALSE, !.finished = FALSE,
              !.outputIsEnabled = TRUE]

\* Algorithm::cleanup
Algorithm_cleanup(o) ==
    [o EXCEPT !.input = "null", !.failed = FALSE, !.finished = FALSE]

\* Algorithm::output: the object afterwards, the result and the image handed out.
Algorithm_output(o) ==
    IF ~o.finished \/ o.failed \/ ~o.outputIsEnabled
    THEN [o |-> o, ok |-> FALSE, image |-> "null"]
    ELSE [o |-> [o EXCEPT !.outputImage = "null"], ok |-> TRUE, image |-> o.outputImage]

\* Algorithm::initializeOutput (raster part): imageOk is whether the QImage
\* could be allocated.
Algorithm_initializeOutput(o, imageOk) ==
    IF ~o.outputIsEnabled
    THEN [o |-> o, ok |-> FALSE]
    ELSE [o |-> [o EXCEPT !.outputImage = IF imageOk THEN "valid" ELSE "nullimg"],
          ok |-> imageOk]

(***************************************************************************)
(* SLIC                                                                    *)
(***************************************************************************)
SLICProgress ==
    << "START", "RGB2LAB", "SEED_CENTERS", "K_MEANS_LABEL_PIXELS",
       "K_MEANS_UPDATE_CENTERS", "K_MEANS_ASSESS_ITERATION",
       "FIND_CONNECTED_COMPONENTS", "CLASSIFY_CONNECTED_COMPONENTS",
       "REASSIGN_CONNECTED_COMPONENTS", "SORT_PIXELS_AS_SUPERPIXELS",
       "CREATE_SUPERPIXEL_OBJECTS", "INITIALIZE_OUTPUT", "FILL_OUTPUT",
       "FINALIZE_OUTPUT", "END" >>

\* The data members of a SLIC object after SLIC::SLIC().  A cluster center
\* is kept as "uninit", "valid" (finite coordinates) or "nan" (0/0, the
\* mean of an empty cluster).  Arrays of bool hold 0 and 1.
SLICNew ==
    AlgorithmNew @@
    [currentCenters |-> NULL, clusterSearchWindow |-> "null",
     clusterLabels |-> NULL, nPixelsPerCluster |-> NULL,
     connectedComponentLabels |-> NULL, nConnectedComponents |-> 0,
     connectedComponentHeap |-> HeapNull,
     connectedComponentClassifications |-> NULL,
     visited |-> NULL, unvisitedPixels |-> << >>, lastVisitedPixel |-> 0,
     visitedPx |-> NULL, pixelSortingOffsets |-> NULL, sortedPixels |-> NULL,
     superpixels |-> NULL,
     progress |-> "START", k |-> 0, iterationCount |-> 0]

\* SLIC::cleanup
SLIC_cleanup(s) ==
    Algorithm_cleanup(
        [s EXCEPT !.currentCenters = NULL, !.clusterSearchWindow = "null",
                  !.clusterLabels = NULL, !.nPixelsPerCluster = NULL,
                  !.connectedComponentLabels = NULL,
                  !.connectedComponentHeap = HeapNull,
                  !.connectedComponentClassifications = NULL,
                  !.visited = NULL, !.unvisitedPixels = << >>,
                  !.visitedPx = NULL, !.pixelSortingOffsets = NULL,
                  !.sortedPixels = NULL, !.superpixels = NULL])

\* SLIC::cleanup, the loop over the kParam entries of superpixels: each
\* entry is read and, when it is not null, deleted.  An entry that
\* createSuperpixels has not assigned yet holds an indeterminate pointer.
SLIC_cleanupReadsUninitialized(s) ==
    /\ s.superpixels # NULL
    /\ \E i \in DOMAIN s.superpixels : s.superpixels[i].id = UNINIT

\* SLIC::initialize(ImageData*&), through Algorithm::initialize(ImageData*&)
SLIC_initialize(s) ==
    [SLIC_cleanup(s) EXCEPT
        !.input = "own", !.failed = FALSE,
        !.currentCenters = Arr(kParam, "uninit"),
        !.clusterSearchWindow = "null",
        !.clusterLabels = Arr(pixelCount, UNINIT),
        !.nPixelsPerCluster = Arr(kParam, UNINIT),
        !.connectedComponentLabels = Arr(pixelCount, UNINIT),
        !.nConnectedComponents = 0,
        !.connectedComponentHeap = BinaryHeapNew,
        !.visited = Arr(pixelCount, UNINIT),
        !.unvisitedPixels = << >>,
        !.lastVisitedPixel = 0,
        !.visitedPx = Arr(pixelCount, UNINIT),
        !.pixelSortingOffsets = Arr(kParam, UNINIT),
        !.sortedPixels = Arr(pixelCount, UNINIT),
        !.progress = "START", !.k = 0, !.iterationCount = 0]

\* SLIC::getLoopLimit
SLIC_getLoopLimit(s) ==
    CASE s.progress \in {"SEED_CENTERS", "K_MEANS_LABEL_PIXELS",
                         "K_MEANS_ASSESS_ITERATION", "CLASSIFY_CONNECTED_COMPONENTS",
                         "CREATE_SUPERPIXEL_OBJECTS", "FILL_OUTPUT"} -> kParam
      [] s.progress \in {"K_MEANS_UPDATE_CENTERS", "FIND_CONNECTED_COMPONENTS",
                         "REASSIGN_CONNECTED_COMPONENTS"} -> pixelCount
      [] OTHER -> 0

\* A variant of kmeansLoopEnds that accepts convergence one iteration early.
kmeansLoopEndsAfterOneIteration(s, converged) ==
    \/ s.iterationCount = SLIC_MAX_KMEANS_ITERATIONS - 1
    \/ (s.iterationCount > 0 /\ converged)

\* The test of case K_MEANS_ASSESS_ITERATION of SLIC::updateKAndProgress.
kmeansLoopEnds(s, converged) ==
    \/ s.iterationCount = SLIC_MAX_KMEANS_ITERATIONS - 1
    \/ (s.iterationCount > 1 /\ converged)

\* The first switch of SLIC::updateKAndProgress, entered with k = 0: the
\* next stage.  converged is the outcome of errorChange <= SLIC_ERROR_THRESHOLD.
SLIC_nextStage(s, converged) ==
    CASE s.progress = "START" -> [s EXCEPT !.progress = "RGB2LAB"]
      [] s.progress = "RGB2LAB" -> [s EXCEPT !.progress = "SEED_CENTERS"]
      [] s.progress = "SEED_CENTERS" -> [s EXCEPT !.progress = "K_MEANS_LABEL_PIXELS"]
      [] s.progress = "K_MEANS_LABEL_PIXELS" -> [s EXCEPT !.progress = "K_MEANS_UPDATE_CENTERS"]
      [] s.progress = "K_MEANS_UPDATE_CENTERS" -> [s EXCEPT !.progress = "K_MEANS_ASSESS_ITERATION"]
      [] s.progress = "K_MEANS_ASSESS_ITERATION" ->
            IF kmeansLoopEnds(s, converged)
            THEN [s EXCEPT !.progress = "FIND_CONNECTED_COMPONENTS"]
            ELSE [s EXCEPT !.progress = "K_MEANS_LABEL_PIXELS",
                           !.iterationCount = @ + 1]
      [] s.progress = "FIND_CONNECTED_COMPONENTS" -> [s EXCEPT !.progress = "CLASSIFY_CONNECTED_COMPONENTS"]
      [] s.progress = "CLASSIFY_CONNECTED_COMPONENTS" -> [s EXCEPT !.progress = "REASSIGN_CONNECTED_COMPONENTS"]
      [] s.progress = "REASSIGN_CONNECTED_COMPONENTS" ->
            [s EXCEPT !.k = pixelCount - 1, !.progress = "SORT_PIXELS_AS_SUPERPIXELS"]
      [] s.progress = "SORT_PIXELS_AS_SUPERPIXELS" -> [s EXCEPT !.progress = "CREATE_SUPERPIXEL_OBJECTS"]
      [] s.progress = "CREATE_SUPERPIXEL_OBJECTS" ->
            [s EXCEPT !.progress = IF s.outputIsEnabled THEN "INITIALIZE_OUTPUT" ELSE "END"]
      [] s.progress = "INITIALIZE_OUTPUT" -> [s EXCEPT !.progress = "FILL_OUTPUT"]
      [] s.progress = "FILL_OUTPUT" -> [s EXCEPT !.progress = "FINALIZE_OUTPUT"]
      [] s.progress = "FINALIZE_OUTPUT" -> [s EXCEPT !.progress = "END"]
      [] OTHER -> s

\* The second switch of SLIC::updateKAndProgress: increment size and direction.
SLIC_inc(progress) ==
    CASE progress \in {"SEED_CENTERS", "K_MEANS_LABEL_PIXELS", "K_MEANS_ASSESS_ITERATION",
                       "CLASSIFY_CONNECTED_COMPONENTS", "CREATE_SUPERPIXEL_OBJECTS",
                       "FILL_OUTPUT"} -> SLIC_CLUSTER_GRANULARITY
      [] progress \in {"K_MEANS_UPDATE_CENTERS", "FIND_CONNECTED_COMPONENTS",
                       "REASSIGN_CONNECTED_COMPONENTS"} -> SLIC_PIXEL_GRANULARITY
      [] progress = "SORT_PIXELS_AS_SUPERPIXELS" -> 0 - SLIC_PIXEL_GRANULARITY
      [] OTHER -> 0

\* A variant of SLIC_stageEnds that compares the cursor of an ascending
\* stage with the size of one quantum instead of the loop limit.
SLIC_stageEndsAfterOneQuantum(s) ==
    \/ (s.k >= SLIC_inc(s.progress) /\ s.progress # "SORT_PIXELS_AS_SUPERPIXELS")
    \/ (s.progress = "SORT_PIXELS_AS_SUPERPIXELS" /\ s.k < SLIC_getLoopLimit(s))

\* Whether SLIC::updateKAndProgress leaves the current stage.
SLIC_stageEnds(s) ==
    LET loopLimit == SLIC_getLoopLimit(s)
    IN  \/ (s.k = loopLimit /\ s.progress # "SORT_PIXELS_AS_SUPERPIXELS")
        \/ (s.progress = "SORT_PIXELS_AS_SUPERPIXELS" /\ s.k < loopLimit)

\* SLIC::updateKAndProgress: the object afterwards and the returned incEnd.
SLIC_updateKAndProgress(s, converged) ==
    LET s1 == IF SLIC_stageEnds(s)
              THEN SLIC_nextStage([s EXCEPT !.k = 0], converged)
              ELSE s
        loopLimit == SLIC_getLoopLimit(s1)
        incEnd == s1.k + SLIC_inc(s1.progress)
    IN  [s |-> s1,
         incEnd |-> IF incEnd > loopLimit /\ s1.progress # "SORT_PIXELS_AS_SUPERPIXELS"
                    THEN loopLimit
                    ELSE IF s1.progress = "SORT_PIXELS_AS_SUPERPIXELS" /\ incEnd < loopLimit
                         THEN loopLimit
                         ELSE incEnd]

\* SLIC::initializeCenters: allocates the search window on first use and
\* seeds the centers k .. endCluster-1 on pixels of the image.
initializeCenters(s, endCluster) ==
    [s EXCEPT !.clusterSearchWindow = "alloc",
              !.currentCenters = [c \in DOMAIN @ |->
                                    IF s.k <= c /\ c < endCluster THEN "valid" ELSE @[c]],
              !.k = Max(s.k, endCluster)]

(***************************************************************************)
(* SLIC::kmeansLabelPixels.  For the image sizes of this model the search  *)
(* window of every center (half width at least 4) covers the whole image,  *)
(* so every pixel is compared with every center k .. endCluster-1 in turn. *)
(* distance < distancesToCenters[ki] is true when the pixel has no label   *)
(* yet (its distance is still validator.top()) and the center is finite,   *)
(* false when the center is NaN, and depends on the pixel values           *)
(* otherwise: pick[p] names the last center of this call that won pixel p, *)
(* if any.                                                                 *)
(***************************************************************************)
kmeansLabelPixels(s, endCluster, pick) ==
    LET cands == {c \in s.k .. (endCluster - 1) : s.currentCenters[c] = "valid"}
        NewLabel(p) ==
            IF pick[p] \in cands THEN pick[p]
            ELSE IF s.clusterLabels[p] # SUPERPIXELLATION_NONE_LABEL \/ cands = {}
                 THEN s.clusterLabels[p]
                 ELSE SetMin(cands)
    IN  [s EXCEPT !.clusterLabels = [p \in DOMAIN @ |-> NewLabel(p)],
                  !.k = Max(s.k, endCluster)]

\* SLIC::kmeansUpdateCenters
RECURSIVE kmeansUpdateCenters(_, _)
kmeansUpdateCenters(s, endPx) ==
    IF s.k < endPx
    THEN kmeansUpdateCenters(
             [s EXCEPT !.nPixelsPerCluster[s.clusterLabels[s.k]] = @ + 1,
                       !.k = @ + 1], endPx)
    ELSE s

\* SLIC::kmeansResidualError: normalizes the centers k .. endCluster-1 by
\* dividing by the cluster's pixel count (both branches do).
kmeansResidualError(s, endCluster) ==
    [s EXCEPT !.currentCenters = [c \in DOMAIN @ |->
                                    IF s.k <= c /\ c < endCluster
                                    THEN (IF s.nPixelsPerCluster[c] = 0 THEN "nan" ELSE "valid")
                                    ELSE @[c]],
              !.k = Max(s.k, endCluster)]

\* do { px = first(); removeFirst(); } while(visited[px] && !isEmpty());
RECURSIVE popUnvisited(_, _)
popUnvisited(queue, visited) ==
    IF visited[Head(queue)] = 1 /\ Tail(queue) # << >>
    THEN popUnvisited(Tail(queue), visited)
    ELSE [px |-> Head(queue), queue |-> Tail(queue)]

\* for(; lastVisitedPixel < n; lastVisitedPixel += 1) if(!visited[..]) break;
RECURSIVE scanUnvisited(_, _)
scanUnvisited(lastVisitedPixel, visited) ==
    IF lastVisitedPixel < pixelCount /\ visited[lastVisitedPixel] # 0
    THEN scanUnvisited(lastVisitedPixel + 1, visited)
    ELSE lastVisitedPixel

\* A variant of ccNeighbours that does not compare cluster labels.
RECURSIVE ccNeighboursOfAnyCluster(_, _, _, _, _)
ccNeighboursOfAnyCluster(s, neighbours, clusterLabel, componentLabel, queue) ==
    IF neighbours = << >>
    THEN [componentLabel |-> componentLabel, queue |-> queue]
    ELSE LET pxNeighbour == Head(neighbours)
         IN  IF s.visited[pxNeighbour] = 1
             THEN ccNeighboursOfAnyCluster(s, Tail(neighbours), clusterLabel,
                                           s.connectedComponentLabels[pxNeighbour], queue)
             ELSE ccNeighboursOfAnyCluster(s, Tail(neighbours), clusterLabel,
                                           componentLabel, Append(queue, pxNeighbour))

\* The neighbour loop of SLIC::labelConnectedComponents.
RECURSIVE ccNeighbours(_, _, _, _, _)
ccNeighbours(s, neighbours, clusterLabel, componentLabel, queue) ==
    IF neighbours = << >>
    THEN [componentLabel |-> componentLabel, queue |-> queue]
    ELSE LET pxNeighbour == Head(neighbours)
         IN  IF clusterLabel = s.clusterLabels[pxNeighbour]
             THEN IF s.visited[pxNeighbour] = 1
                  THEN ccNeighbours(s, Tail(neighbours), clusterLabel,
                                    s.connectedComponentLabels[pxNeighbour], queue)
                  ELSE ccNeighbours(s, Tail(neighbours), clusterLabel,
                                    componentLabel, Append(queue, pxNeighbour))
             ELSE ccNeighbours(s, Tail(neighbours), clusterLabel, componentLabel, queue)

\* The loop of SLIC::labelConnectedComponents; px0 and componentLabel0 are
\* the locals px and componentLabel, which live for one call.
RECURSIVE labelConnectedComponentsLoop(_, _, _, _)
labelConnectedComponentsLoop(s, endPx, px0, componentLabel0) ==
    IF s.k < endPx
    THEN LET popped == IF s.unvisitedPixels # << >>
                       THEN popUnvisited(s.unvisitedPixels, s.visited)
                       ELSE [px |-> px0, queue |-> s.unvisitedPixels]
             newComponent == IF popped.px = SUPERPIXELLATION_NONE_LABEL
                             THEN TRUE
                             ELSE s.visited[popped.px] = 1
             scanned == scanUnvisited(s.lastVisitedPixel, s.visited)
             px == IF newComponent /\ scanned < pixelCount THEN scanned ELSE popped.px
             label1 == IF newComponent THEN s.nConnectedComponents ELSE componentLabel0
             heap1 == IF newComponent
                      THEN heapAdd(s.connectedComponentHeap,
                                   SizeLabelsPair(s.clusterLabels[px], label1))
                      ELSE s.connectedComponentHeap
             nb == ccNeighbours(s, fourNeighbours(px), s.clusterLabels[px],
                                label1, popped.queue)
             s1 == [s EXCEPT
                      !.unvisitedPixels = nb.queue,
                      !.nConnectedComponents = IF newComponent THEN @ + 1 ELSE @,
                      !.lastVisitedPixel = IF newComponent THEN scanned ELSE @,
                      !.visited[px] = 1,
                      !.connectedComponentLabels[px] = nb.componentLabel,
                      !.connectedComponentHeap = heapGrowAndIncrease(heap1, nb.componentLabel),
                      !.k = @ + 1]
         IN  labelConnectedComponentsLoop(s1, endPx, px, nb.componentLabel)
    ELSE s

\* SLIC::labelConnectedComponents
labelConnectedComponents(s, endPx) ==
    labelConnectedComponentsLoop(s, endPx, SUPERPIXELLATION_NONE_LABEL,
                                 SUPERPIXELLATION_NONE_LABEL)

\* while(item.cluster < k && connectedComponentHeap->size() > 0) item = remove();
RECURSIVE classifyDrain(_, _, _)
classifyDrain(h, item, k) ==
    IF item.cluster < k /\ h.n > 0
    THEN classifyDrain(heapRemove(h), heapMax(h), k)
    ELSE [h |-> h, item |-> item]

\* The loop of SLIC::classifyConnectedComponents; item0 is the local item.
RECURSIVE classifyConnectedComponentsLoop(_, _, _)
classifyConnectedComponentsLoop(s, endCluster, item0) ==
    IF s.k < endCluster
    THEN LET d == classifyDrain(s.connectedComponentHeap, item0, s.k)
             s1 == [s EXCEPT
                      !.connectedComponentHeap = d.h,
                      !.connectedComponentClassifications =
                          IF d.item.cluster = s.k
                          THEN [@ EXCEPT ![d.item.component] = 1]
                          ELSE @,
                      !.k = @ + 1]
         IN  classifyConnectedComponentsLoop(s1, endCluster, d.item)
    ELSE s

\* A variant of classifyConnectedComponents that keeps every component.
classifyEveryComponent(s, endCluster) ==
    [s EXCEPT !.connectedComponentClassifications = Fill(@, 1),
              !.k = Max(s.k, endCluster)]

\* SLIC::classifyConnectedComponents (SLIC_SELECT_LARGEST_COMPONENTS = 1):
\* the local item is default-constructed in every call.
classifyConnectedComponents(s, endCluster) ==
    classifyConnectedComponentsLoop(s, endCluster, SizeLabelsPairEmpty)

\* A variant of reassignNeighbours that stops at the first unvisited
\* neighbour, kept or not.
reassignToFirstNeighbour(s, neighbours, queue) ==
    LET unvisited == SelectSeq(neighbours, LAMBDA n : s.visited[n] = 0)
    IN  IF unvisited = << >>
        THEN [done |-> FALSE, from |-> SUPERPIXELLATION_NONE_LABEL, queue |-> queue]
        ELSE [done |-> TRUE, from |-> Head(unvisited), queue |-> queue]

\* The neighbour loop of SLIC::reassignConnectedComponents: stops at the
\* first unvisited neighbour that lies in a kept component.
RECURSIVE reassignNeighbours(_, _, _)
reassignNeighbours(s, neighbours, queue) ==
    IF neighbours = << >>
    THEN [done |-> FALSE, from |-> SUPERPIXELLATION_NONE_LABEL, queue |-> queue]
    ELSE LET pxNeighbour == Head(neighbours)
         IN  IF s.visited[pxNeighbour] = 0
             THEN IF s.connectedComponentClassifications[
                         s.connectedComponentLabels[pxNeighbour]] = 1
                  THEN [done |-> TRUE, from |-> pxNeighbour, queue |-> queue]
                  ELSE reassignNeighbours(s, Tail(neighbours), Append(queue, pxNeighbour))
             ELSE reassignNeighbours(s, Tail(neighbours), queue)

\* for(; nVisited >= 0; nVisited -= 1) visited[visitedPx[nVisited]] = false;
reassignCleanup(s, nVisited) ==
    [s EXCEPT !.visited = [p \in DOMAIN @ |->
                             IF \E i \in 0 .. nVisited : s.visitedPx[i] = p
                             THEN 0 ELSE @[p]]]

\* A variant of reassignSearch that counts the pixel in its new cluster
\* without taking it out of the old one.
RECURSIVE reassignSearchCountingNewLabelOnly(_, _, _)
reassignSearchCountingNewLabelOnly(s, px0, nVisited) ==
    LET popped == IF s.unvisitedPixels # << >>
                  THEN popUnvisited(s.unvisitedPixels, s.visited)
                  ELSE [px |-> px0, queue |-> s.unvisitedPixels]
        px == popped.px
        nb == reassignNeighbours(s, fourNeighbours(px), popped.queue)
        newLabel == s.clusterLabels[nb.from]
        s1 == [s EXCEPT !.unvisitedPixels = nb.queue,
                        !.clusterLabels = IF nb.done THEN [@ EXCEPT ![s.k] = newLabel] ELSE @,
                        !.nPixelsPerCluster = IF nb.done THEN [@ EXCEPT ![newLabel] = @ + 1]
                                              ELSE @,
                        !.visited[px] = 1,
                        !.visitedPx[nVisited + 1] = px]
    IN  IF nVisited + 1 >= pixelCount
        THEN [s |-> s, px |-> px, diverges |-> TRUE]
        ELSE IF nb.done
             THEN [s |-> reassignCleanup(s1, nVisited + 1), px |-> px, diverges |-> FALSE]
             ELSE reassignSearchCountingNewLabelOnly(s1, px, nVisited + 1)

(***************************************************************************)
(* The while(!done) loop of SLIC::reassignConnectedComponents for pixel k. *)
(* px0 and nVisited are the locals px and nVisited.  When no kept          *)
(* component can be reached, the queue runs dry, the last pixel is visited *)
(* again and again, and nVisited runs past the end of visitedPx: the loop  *)
(* has no exit and the call does not return (diverges).                    *)
(***************************************************************************)
RECURSIVE reassignSearch(_, _, _)
reassignSearch(s, px0, nVisited) ==
    LET popped == IF s.unvisitedPixels # << >>
                  THEN popUnvisited(s.unvisitedPixels, s.visited)
                  ELSE [px |-> px0, queue |-> s.unvisitedPixels]
        px == popped.px
        nb == reassignNeighbours(s, fourNeighbours(px), popped.queue)
        oldLabel == s.clusterLabels[s.k]
        newLabel == s.clusterLabels[nb.from]
        counts1 == [s.nPixelsPerCluster EXCEPT ![oldLabel] = @ - 1]
        counts2 == [counts1 EXCEPT ![newLabel] = @ + 1]
        s1 == [s EXCEPT !.unvisitedPixels = nb.queue,
                        !.clusterLabels = IF nb.done THEN [@ EXCEPT ![s.k] = newLabel] ELSE @,
                        !.nPixelsPerCluster = IF nb.done THEN counts2 ELSE @,
                        !.visited[px] = 1,
                        !.visitedPx[nVisited + 1] = px]
    IN  IF nVisited + 1 >= pixelCount
        THEN [s |-> s, px |-> px, diverges |-> TRUE]
        ELSE IF nb.done
             THEN [s |-> reassignCleanup(s1, nVisited + 1), px |-> px, diverges |-> FALSE]
             ELSE reassignSearch(s1, px, nVisited + 1)

\* The for loop of SLIC::reassignConnectedComponents.
RECURSIVE reassignConnectedComponentsLoop(_, _, _)
reassignConnectedComponentsLoop(s, endPx, px0) ==
    IF s.k < endPx
    THEN IF s.connectedComponentClassifications[s.connectedComponentLabels[s.k]] = 0
         THEN LET r == reassignSearch([s EXCEPT !.unvisitedPixels = << s.k >>], px0,
                                      SUPERPIXELLATION_NONE_LABEL)
              IN  IF r.diverges
                  THEN [s |-> r.s, diverges |-> TRUE]
                  ELSE reassignConnectedComponentsLoop([r.s EXCEPT !.k = @ + 1], endPx, r.px)
         ELSE reassignConnectedComponentsLoop([s EXCEPT !.k = @ + 1], endPx, px0)
    ELSE [s |-> s, diverges |-> FALSE]

\* SLIC::reassignConnectedComponents
reassignConnectedComponents(s, endPx) ==
    reassignConnectedComponentsLoop(s, endPx, SUPERPIXELLATION_NONE_LABEL)

\* A variant of prefixSum that leaves out the offset of the cluster before.
prefixSumOfOneCluster(counts, i) == counts[i]

\* pixelSortingOffsets[i] = nPixelsPerCluster[i] + pixelSortingOffsets[i - 1]
RECURSIVE prefixSum(_, _)
prefixSum(counts, i) == IF i = 0 THEN counts[0] ELSE counts[i] + prefixSum(counts, i - 1)

\* SLIC::sortPixelsIntoSuperpixels
RECURSIVE sortPixelsIntoSuperpixels(_, _)
sortPixelsIntoSuperpixels(s, endPx) ==
    IF s.k >= endPx
    THEN LET label == s.clusterLabels[s.k]
             offset == s.pixelSortingOffsets[label] - 1
         IN  sortPixelsIntoSuperpixels(
                 [s EXCEPT !.pixelSortingOffsets[label] = offset,
                           !.sortedPixels[offset] = s.k,
                           !.k = @ - 1], endPx)
    ELSE s

SeqToArr(seq) == [i \in 0 .. (Len(seq) - 1) |-> seq[i + 1]]

\* A variant of isBoundaryPixel that looks at the number of neighbours only.
isBoundaryPixelOfImage(px, labels, img) == Len(fourNeighboursOf(img, px)) < 4

\* Superpixel::Superpixel: a pixel is a boundary pixel when it has fewer
\* than four neighbours or a neighbour with another label.
isBoundaryPixel(px, labels, img) ==
    LET neighbours == fourNeighboursOf(img, px)
    IN  \/ Len(neighbours) < 4
        \/ \E j \in 1 .. 4 : labels[px] # labels[neighbours[j]]

\* The pixels of allPixels whose isBoundary flag equals wanted, in order.
RECURSIVE pixelsOfKind(_, _, _, _)
pixelsOfKind(allPixels, labels, wanted, img) ==
    IF allPixels = << >> THEN << >>
    ELSE (IF isBoundaryPixel(Head(allPixels), labels, img) = wanted
          THEN << Head(allPixels) >> ELSE << >>)
         \o pixelsOfKind(Tail(allPixels), labels, wanted, img)

\* Superpixel::Superpixel: allPx is rearranged to hold the boundary pixels
\* first, then the interior pixels.
Superpixel(l, allPixels, nPx, labels, img) ==
    LET boundary == pixelsOfKind(allPixels, labels, TRUE, img)
    IN  [id |-> l, nPixels |-> nPx,
         nBoundaryPixels |-> Len(boundary),
         nInteriorPixels |-> nPx - Len(boundary),
         allPx |-> SeqToArr(boundary \o pixelsOfKind(allPixels, labels, FALSE, img))]

\* SLIC::createSuperpixels
RECURSIVE createSuperpixels(_, _)
createSuperpixels(s, endCluster) ==
    IF s.k < endCluster
    THEN LET nPx == s.nPixelsPerCluster[s.k]
             startPx == s.pixelSortingOffsets[s.k]
             superpixelPx == [i \in 1 .. nPx |-> s.sortedPixels[startPx + i - 1]]
         IN  createSuperpixels(
                 [s EXCEPT !.superpixels[s.k] =
                               Superpixel(s.k, superpixelPx, nPx, s.clusterLabels,
                                          inputImage),
                           !.k = @ + 1], endCluster)
    ELSE s

\* An uninitialized Superpixel* of the array new Superpixel*[kParam].
SuperpixelUninit ==
    [id |-> UNINIT, nPixels |-> UNINIT, nBoundaryPixels |-> UNINIT,
     nInteriorPixels |-> UNINIT, allPx |-> NULL]

(***************************************************************************)
(* The switch(progress) of SLIC::increment, after updateKAndProgress.      *)
(* env.pick, env.converged and env.imageOk are what the call reads from    *)
(* the pixel values and from the allocator.                                *)
(***************************************************************************)
SLIC_stage(s, incEnd, env) ==
    LET same(t) == [s |-> t, diverges |-> FALSE]
    IN  CASE s.progress = "RGB2LAB" -> same(s)
          [] s.progress = "SEED_CENTERS" -> same(initializeCenters(s, incEnd))
          [] s.progress = "K_MEANS_LABEL_PIXELS" ->
                same(kmeansLabelPixels(
                    IF s.k = 0
                    THEN [s EXCEPT !.clusterLabels = Fill(@, SUPERPIXELLATION_NONE_LABEL)]
                    ELSE s, incEnd, env.pick))
          [] s.progress = "K_MEANS_UPDATE_CENTERS" ->
                same(kmeansUpdateCenters(
                    IF s.k = 0
                    THEN [s EXCEPT !.nPixelsPerCluster = Fill(@, 0),
                                   !.currentCenters = Fill(@, "valid")]
                    ELSE s, incEnd))
          [] s.progress = "K_MEANS_ASSESS_ITERATION" -> same(kmeansResidualError(s, incEnd))
          [] s.progress = "FIND_CONNECTED_COMPONENTS" ->
                same(labelConnectedComponents(
                    IF s.k = 0
                    THEN [s EXCEPT !.visited = Fill(@, 0),
                                   !.connectedComponentLabels =
                                       Fill(@, SUPERPIXELLATION_NONE_LABEL)]
                    ELSE s, incEnd))
          [] s.progress = "CLASSIFY_CONNECTED_COMPONENTS" ->
                same(classifyConnectedComponents(
                    IF s.k = 0
                    THEN [s EXCEPT !.connectedComponentClassifications =
                                       Arr(s.nConnectedComponents, 0)]
                    ELSE s, incEnd))
          [] s.progress = "REASSIGN_CONNECTED_COMPONENTS" ->
                reassignConnectedComponents(
                    IF s.k = 0 THEN [s EXCEPT !.visited = Fill(@, 0)] ELSE s, incEnd)
          [] s.progress = "SORT_PIXELS_AS_SUPERPIXELS" ->
                same(sortPixelsIntoSuperpixels(
                    IF s.k = pixelCount - 1
                    THEN [s EXCEPT !.pixelSortingOffsets =
                                       [i \in DOMAIN @ |-> prefixSum(s.nPixelsPerCluster, i)]]
                    ELSE s, incEnd))
          [] s.progress = "CREATE_SUPERPIXEL_OBJECTS" ->
                same(createSuperpixels(
                    IF s.k = 0
                    THEN [s EXCEPT !.superpixels = Arr(kParam, SuperpixelUninit)]
                    ELSE s, incEnd))
          [] s.progress = "INITIALIZE_OUTPUT" ->
                LET r == Algorithm_initializeOutput(s, env.imageOk)
                IN  same([r.o EXCEPT !.failed = ~r.ok])
          [] s.progress = "FILL_OUTPUT" -> same([s EXCEPT !.k = Max(s.k, incEnd)])
          [] s.progress = "FINALIZE_OUTPUT" -> same(s)
          [] s.progress = "END" -> same([s EXCEPT !.finished = TRUE])
          [] OTHER -> same([s EXCEPT !.failed = TRUE])

\* SLIC::increment: the object afterwards, the returned value (ok), whether
\* the out-parameter f was written (fSet) and with what (f), and whether
\* the call fails to return (diverges).
SLIC_incrementReturn(r) ==
    [s |-> r.s, ok |-> ~r.s.failed, fSet |-> TRUE, f |-> r.s.finished,
     diverges |-> r.diverges]

\* u is what updateKAndProgress produced.
SLIC_stageAfter(u, env) == SLIC_stage(u.s, u.incEnd, env)

\* A variant of SLIC_increment without the test of failed.
SLIC_incrementUnchecked(s, env) ==
    IF s.finished
    THEN [s |-> s, ok |-> FALSE, fSet |-> TRUE, f |-> s.finished, diverges |-> FALSE]
    ELSE SLIC_incrementReturn(
             SLIC_stageAfter(SLIC_updateKAndProgress(s, env.converged), env))

SLIC_increment(s, env) ==
    IF s.failed
    THEN [s |-> s, ok |-> FALSE, fSet |-> FALSE, f |-> FALSE, diverges |-> FALSE]
    ELSE IF s.finished
         THEN [s |-> s, ok |-> FALSE, fSet |-> TRUE, f |-> s.finished, diverges |-> FALSE]
         ELSE SLIC_incrementReturn(
                  SLIC_stageAfter(SLIC_updateKAndProgress(s, env.converged), env))

\* The Superpixellation built by SLIC::outputSuperpixellation.
Superpixellation(s) ==
    [labels |-> s.clusterLabels, superpixels |-> s.superpixels, nSuperpixels |-> kParam]

\* SLIC::outputSuperpixellation: the Superpixellation constructor takes the
\* image, the labels and the superpixels from the generator.
SLIC_outputSuperpixellation(s) ==
    IF s.failed \/ ~s.finished
    THEN [s |-> s, ok |-> FALSE]
    ELSE [s |-> [s EXCEPT !.input = "null", !.clusterLabels = NULL, !.superpixels = NULL],
          ok |-> TRUE]

(***************************************************************************)
(* SuperpixelFilter and LocalDataFilter.  The filter holds its generator   *)
(* (a SLIC object whose output was disabled by the filter's constructor).  *)
(* Its input points to the image owned by the generator and later by the   *)
(* Superpixellation ("alias").                                             *)
(*                                                                         *)
(* Scores are integers.  For the SIZE basis a normalized score is          *)
(* size * nSuperpixels in units of 1 / pixelCount.  For the other bases a  *)
(* score is a level 0 .. MaxScoreLevel read from the pixel values, where   *)
(* MaxScoreLevel stands for LOCALDATAFILTER_MAX_STDDEV_LSTAR and for       *)
(* IMAGEDATA_MAX_LIGHTNESS.  inverseBinWidth is "zero", "finite" or "inf"  *)
(* ((nHistogramBins - 1) / 0.0); otsuThreshold holds the bin index t of    *)
(* the threshold t / inverseBinWidth + minScore.                           *)
(***************************************************************************)
NoSuperpixellation == [labels |-> NULL, superpixels |-> NULL, nSuperpixels |-> 0]

\* QDoubleValidator().bottom() and .top(): minus and plus infinity.
ScoreBottom == -1000
ScoreTop == 1000

ScoreLevels == 0 .. MaxScoreLevel

\* SuperpixelFilter::SuperpixelFilter
SuperpixelFilterNew ==
    AlgorithmNew @@
    [superpixelGenerator |-> [SLICNew EXCEPT !.outputIsEnabled = FALSE],
     superpixellation |-> NoSuperpixellation,
     selectedSuperpixels |-> NULL, selectedPixels |-> NULL,
     isSuperpixelGenerationFinished |-> FALSE, canDeleteInput |-> TRUE]

\* LocalDataFilter::LocalDataFilter
LocalDataFilterNew(b) ==
    SuperpixelFilterNew @@
    [basis |-> b, selectionMap |-> "null", lStarSelectionMap |-> "null",
     superpixelScores |-> NULL, maxScore |-> 0, minScore |-> 0,
     inverseBinWidth |-> "zero", histogram |-> NULL, nHistogramBins |-> 0,
     otsuThreshold |-> 0, selectBelowThreshold |-> (b # "SIZE"),
     outputInRow |-> FALSE, progress |-> "START", k |-> 0]

\* SuperpixelFilter::cleanup
SuperpixelFilter_cleanup(o) ==
    Algorithm_cleanup(
        [o EXCEPT !.input = IF ~o.canDeleteInput THEN "null" ELSE @,
                  !.superpixellation = NoSuperpixellation,
                  !.selectedSuperpixels = NULL, !.selectedPixels = NULL])

\* LocalDataFilter::cleanup
LocalDataFilter_cleanup(o) ==
    SuperpixelFilter_cleanup(
        [o EXCEPT !.selectionMap = "null", !.lStarSelectionMap = "null",
                  !.superpixelScores = NULL, !.histogram = NULL])

\* SuperpixelFilter::initialize(ImageData*&), on a LocalDataFilter:
\* Algorithm::initialize(ImageData*&) calls the virtual cleanup().
SuperpixelFilter_initializeImage(o) ==
    [LocalDataFilter_cleanup([o EXCEPT !.isSuperpixelGenerationFinished = FALSE])
        EXCEPT !.input = "alias", !.failed = FALSE]

\* LocalDataFilter::initialize(ImageData*&)
LocalDataFilter_initializeImage(o) ==
    [SuperpixelFilter_initializeImage(o) EXCEPT
        !.maxScore = ScoreBottom, !.minScore = ScoreTop,
        !.inverseBinWidth = "zero", !.nHistogramBins = 0, !.otsuThreshold = 0,
        !.outputInRow = FALSE, !.progress = "START", !.k = 0]

\* SuperpixelFilter::initialize(QVector<ImageData*>*&) without
\* canDeleteInput = false.
SuperpixelFilter_initializeOwningInput(o) ==
    LET generator == SLIC_initialize(o.superpixelGenerator)
        o1 == [o EXCEPT !.superpixelGenerator = generator,
                        !.failed = generator.failed]
    IN  IF o1.failed THEN o1 ELSE LocalDataFilter_initializeImage(o1)

\* SuperpixelFilter::initialize(QVector<ImageData*>*&): initializes the
\* generator (Algorithm::initialize(QVector<ImageData*>*&) on the SLIC
\* object), then calls the virtual initialize(ImageData*&).
SuperpixelFilter_initialize(o) ==
    LET generator == SLIC_initialize(o.superpixelGenerator)
        o1 == [o EXCEPT !.superpixelGenerator = generator,
                        !.failed = generator.failed,
                        !.canDeleteInput = FALSE]
    IN  IF o1.failed THEN o1 ELSE LocalDataFilter_initializeImage(o1)

\* LocalDataFilter::initialize(QVector<ImageData*>*&); dimensionsAgree is
\* whether the selection map has the size of the image.
LocalDataFilter_initialize(o, dimensionsAgree) ==
    LET o1 == IF o.basis = "EXTERNAL" /\ ~dimensionsAgree
              THEN [o EXCEPT !.failed = TRUE] ELSE o
        o2 == IF ~o1.failed THEN SuperpixelFilter_initialize(o1) ELSE o1
    IN  IF ~o2.failed
        THEN [o2 EXCEPT !.selectionMap = IF o.basis = "EXTERNAL" THEN "own" ELSE "null"]
        ELSE o2

\* SuperpixelFilter::increment once the generator has finished; r is what
\* outputSuperpixellation returned.
SuperpixelFilter_takeSuperpixellation(o, r) ==
    IF r.ok
    THEN [o |-> [o EXCEPT
                   !.superpixelGenerator = r.s,
                   !.superpixellation = Superpixellation(o.superpixelGenerator),
                   !.selectedSuperpixels = Arr(kParam, 0),
                   !.selectedPixels = Arr(pixelCount, 0),
                   !.isSuperpixelGenerationFinished = TRUE],
          ok |-> TRUE, diverges |-> FALSE]
    ELSE [o |-> [o EXCEPT !.failed = TRUE], ok |-> FALSE, diverges |-> FALSE]

\* A variant of SuperpixelFilter_generatorStep that reports success whatever
\* the generator returned.
SuperpixelFilter_generatorStepIgnoringFailure(o, r) ==
    [o |-> [o EXCEPT !.superpixelGenerator = r.s], ok |-> TRUE, diverges |-> r.diverges]

\* SuperpixelFilter::increment while the generator runs; r is what the
\* generator's increment returned.
SuperpixelFilter_generatorStep(o, r) ==
    [o |-> [o EXCEPT !.superpixelGenerator = r.s, !.failed = ~r.ok],
     ok |-> r.ok, diverges |-> r.diverges]

\* SuperpixelFilter::increment
SuperpixelFilter_increment(o, env) ==
    IF o.failed \/ o.finished
    THEN [o |-> o, ok |-> FALSE, diverges |-> FALSE]
    ELSE IF o.superpixelGenerator.finished
         THEN SuperpixelFilter_takeSuperpixellation(
                  o, SLIC_outputSuperpixellation(o.superpixelGenerator))
         ELSE SuperpixelFilter_generatorStep(
                  o, SLIC_increment(o.superpixelGenerator, env))

\* SuperpixelFilter::isFinished
SuperpixelFilter_isFinished(o) == o.isSuperpixelGenerationFinished

\* SuperpixelFilter::outputFilteredSuperpixellation: the
\* FilteredSuperpixellation takes the image, the superpixellation and the
\* selection arrays.
SuperpixelFilter_outputFilteredSuperpixellation(o) ==
    IF o.failed \/ ~o.finished \/ ~o.isSuperpixelGenerationFinished
    THEN [o |-> o, ok |-> FALSE]
    ELSE [o |-> [o EXCEPT !.input = "null", !.superpixellation = NoSuperpixellation,
                          !.selectedSuperpixels = NULL, !.selectedPixels = NULL],
          ok |-> TRUE]

LocalDataFilterProgress ==
    << "START", "GENERATE_SUPERPIXELS", "RGB2LAB", "COLLECT_STATISTICS",
       "NORMALIZE_STATISTICS", "CONSTRUCT_HISTOGRAM", "CHOOSE_OTSU_THRESHOLD",
       "FILTER_SUPERPIXELS", "INITIALIZE_OUTPUT", "FILL_OUTPUT",
       "FINALIZE_OUTPUT", "END" >>

\* LocalDataFilter::getLoopLimit
LocalDataFilter_getLoopLimit(o) ==
    IF o.progress \in {"COLLECT_STATISTICS", "NORMALIZE_STATISTICS",
                       "CONSTRUCT_HISTOGRAM", "FILTER_SUPERPIXELS", "FILL_OUTPUT"}
    THEN o.superpixellation.nSuperpixels
    ELSE 0

\* LocalDataFilter::updateKAndProgress, the switch over progress, entering
\* the output stages whether or not output is enabled.
LocalDataFilter_nextStageAlwaysOutput(o) ==
    CASE o.progress = "START" -> "GENERATE_SUPERPIXELS"
      [] o.progress = "GENERATE_SUPERPIXELS" ->
            IF SuperpixelFilter_isFinished(o)
            THEN (IF o.basis = "EXTERNAL" THEN "RGB2LAB" ELSE "COLLECT_STATISTICS")
            ELSE "GENERATE_SUPERPIXELS"
      [] o.progress = "RGB2LAB" -> "COLLECT_STATISTICS"
      [] o.progress = "COLLECT_STATISTICS" -> "NORMALIZE_STATISTICS"
      [] o.progress = "NORMALIZE_STATISTICS" -> "CONSTRUCT_HISTOGRAM"
      [] o.progress = "CONSTRUCT_HISTOGRAM" -> "CHOOSE_OTSU_THRESHOLD"
      [] o.progress = "CHOOSE_OTSU_THRESHOLD" -> "FILTER_SUPERPIXELS"
      [] o.progress = "FILTER_SUPERPIXELS" ->
            "INITIALIZE_OUTPUT"
      [] o.progress = "INITIALIZE_OUTPUT" -> "FILL_OUTPUT"
      [] o.progress = "FILL_OUTPUT" -> "FINALIZE_OUTPUT"
      [] o.progress = "FINALIZE_OUTPUT" -> "END"
      [] OTHER -> o.progress

\* The first switch of LocalDataFilter::updateKAndProgress.
LocalDataFilter_nextStage(o) ==
    CASE o.progress = "START" -> "GENERATE_SUPERPIXELS"
      [] o.progress = "GENERATE_SUPERPIXELS" ->
            IF SuperpixelFilter_isFinished(o)
            THEN (IF o.basis = "EXTERNAL" THEN "RGB2LAB" ELSE "COLLECT_STATISTICS")
            ELSE "GENERATE_SUPERPIXELS"
      [] o.progress = "RGB2LAB" -> "COLLECT_STATISTICS"
      [] o.progress = "COLLECT_STATISTICS" -> "NORMALIZE_STATISTICS"
      [] o.progress = "NORMALIZE_STATISTICS" -> "CONSTRUCT_HISTOGRAM"
      [] o.progress = "CONSTRUCT_HISTOGRAM" -> "CHOOSE_OTSU_THRESHOLD"
      [] o.progress = "CHOOSE_OTSU_THRESHOLD" -> "FILTER_SUPERPIXELS"
      [] o.progress = "FILTER_SUPERPIXELS" ->
            IF o.outputIsEnabled THEN "INITIALIZE_OUTPUT" ELSE "END"
      [] o.progress = "INITIALIZE_OUTPUT" -> "FILL_OUTPUT"
      [] o.progress = "FILL_OUTPUT" -> "FINALIZE_OUTPUT"
      [] o.progress = "FINALIZE_OUTPUT" -> "END"
      [] OTHER -> o.progress

\* LocalDataFilter::updateKAndProgress
LocalDataFilter_updateKAndProgress(o) ==
    LET o1 == IF o.k = LocalDataFilter_getLoopLimit(o)
              THEN [o EXCEPT !.k = 0, !.progress = LocalDataFilter_nextStage(o)]
              ELSE o
        loopLimit == LocalDataFilter_getLoopLimit(o1)
        inc == IF o1.progress \in {"COLLECT_STATISTICS", "NORMALIZE_STATISTICS",
                                   "CONSTRUCT_HISTOGRAM", "FILTER_SUPERPIXELS",
                                   "FILL_OUTPUT"}
               THEN LOCALDATAFILTER_CLUSTER_GRANULARITY ELSE 0
        incEnd == o1.k + inc
    IN  [o |-> o1, incEnd |-> IF incEnd > loopLimit THEN loopLimit ELSE incEnd]

\* LocalDataFilter::collectSizeStatistics, collectStddevLStarStatistics and
\* collectExternalStatistics, selected by the constructor from the basis.
\* level[c] is the statistic the pixel values give for superpixel c: the
\* standard deviation of a superpixel of at most one pixel is 0.0, and the
\* external score of a superpixel without pixels is 0.0.
RECURSIVE collectStatistics(_, _, _)
collectStatistics(o, endSuperpixel, level) ==
    IF o.k < endSuperpixel
    THEN LET nPx == o.superpixellation.superpixels[o.k].nPixels
             score == CASE o.basis = "SIZE" -> nPx
                        [] o.basis = "STDDEV_LSTAR" -> IF nPx > 1 THEN level[o.k] ELSE 0
                        [] OTHER -> IF nPx > 0 THEN level[o.k] ELSE 0
         IN  collectStatistics([o EXCEPT !.superpixelScores[o.k] = score, !.k = @ + 1],
                               endSuperpixel, level)
    ELSE o

\* LocalDataFilter::normalizeSizeStatistics, normalizeStddevLStarStatistics
\* and normalizeExternalStatistics.
RECURSIVE normalizeStatistics(_, _)
normalizeStatistics(o, endSuperpixel) ==
    IF o.basis = "EXTERNAL"
    THEN [o EXCEPT !.maxScore = IF o.k = 0 THEN MaxScoreLevel ELSE @,
                   !.minScore = IF o.k = 0 THEN 0 ELSE @,
                   !.k = endSuperpixel]
    ELSE IF o.k < endSuperpixel
         THEN LET score == IF o.basis = "SIZE"
                           THEN o.superpixellation.superpixels[o.k].nPixels
                                * o.superpixellation.nSuperpixels
                           ELSE o.superpixelScores[o.k]
              IN  normalizeStatistics(
                      [o EXCEPT !.superpixelScores[o.k] = score,
                                !.maxScore = IF score > @ THEN score ELSE @,
                                !.minScore = IF score < @ THEN score ELSE @,
                                !.k = @ + 1], endSuperpixel)
         ELSE o

\* The number of bins chosen when the histogram stage starts.
histogramBinCount(nSuperpixels) ==
    IF nSuperpixels < LOCALDATAFILTER_MAX_HISTOGRAM_BINS
                      * LOCALDATAFILTER_MIN_HISTOGRAM_BINS_PER_SUPERPIXEL
    THEN Max(nSuperpixels \div LOCALDATAFILTER_MIN_HISTOGRAM_BINS_PER_SUPERPIXEL,
             LOCALDATAFILTER_MIN_HISTOGRAM_BINS)
    ELSE LOCALDATAFILTER_MAX_HISTOGRAM_BINS

(***************************************************************************)
(* LocalDataFilter::constructHistogram.  With maxScore = minScore the      *)
(* product (score - minScore) * inverseBinWidth is 0 * inf = NaN, and the  *)
(* conversion of NaN to pxind is undefined: nanCast is what the build      *)
(* makes of it, "zero" (bin 0) or "trap" (an index far outside the         *)
(* histogram: the call does not return).                                   *)
(***************************************************************************)
RECURSIVE constructHistogram(_, _, _)
constructHistogram(o, endSuperpixel, nanCast) ==
    IF o.k < endSuperpixel
    THEN IF o.inverseBinWidth = "inf" /\ nanCast = "trap"
         THEN [o |-> o, diverges |-> TRUE]
         ELSE LET bin == IF o.inverseBinWidth = "inf" THEN 0
                         ELSE ((o.superpixelScores[o.k] - o.minScore)
                               * (o.nHistogramBins - 1))
                              \div (o.maxScore - o.minScore)
              IN  constructHistogram(
                      [o EXCEPT !.histogram[bin] = @ + 1, !.k = @ + 1],
                      endSuperpixel, nanCast)
    ELSE [o |-> o, diverges |-> FALSE]

\* sumAll of LocalDataFilter::chooseOtsuThreshold
RECURSIVE histogramSum(_, _)
histogramSum(histogram, bin) ==
    IF bin < 0 THEN 0 ELSE bin * histogram[bin] + histogramSum(histogram, bin - 1)

\* The second loop of LocalDataFilter::chooseOtsuThreshold from bin on.
\* The between-class variance weightDark * weightLight * diffMean^2 is the
\* fraction num^2 / (weightDark * weightLight); the largest one so far is
\* maxNum / maxDen.
RECURSIVE otsuLoop(_, _, _, _, _, _, _, _)
otsuLoop(o, sumAll, bin, weightDark0, sumDark0, maxNum, maxDen, threshold) ==
    IF bin < o.nHistogramBins
    THEN LET weightDark == weightDark0 + o.histogram[bin - 1]
             weightLight == o.superpixellation.nSuperpixels - weightDark
             sumDark == sumDark0 + (bin - 1) * o.histogram[bin - 1]
             num == (sumAll - sumDark) * weightDark - sumDark * weightLight
             den == weightDark * weightLight
         IN  IF weightDark = 0
             THEN otsuLoop(o, sumAll, bin + 1, weightDark, sumDark0, maxNum, maxDen, threshold)
             ELSE IF weightLight = 0
                  THEN threshold
                  ELSE IF num * num * maxDen > maxNum * den
                       THEN otsuLoop(o, sumAll, bin + 1, weightDark, sumDark,
                                     num * num, den, bin)
                       ELSE otsuLoop(o, sumAll, bin + 1, weightDark, sumDark,
                                     maxNum, maxDen, threshold)
    ELSE threshold

\* A variant of chooseOtsuThreshold that leaves sumAll at 0.
chooseOtsuThresholdWithoutSumAll(o) ==
    [o EXCEPT !.otsuThreshold = otsuLoop(o, 0, 1, 0, 0, 0, 1, 0)]

\* LocalDataFilter::chooseOtsuThreshold
chooseOtsuThreshold(o) ==
    [o EXCEPT !.otsuThreshold =
        otsuLoop(o, histogramSum(o.histogram, o.nHistogramBins - 1), 1, 0, 0, 0, 1, 0)]

\* A variant of belowOtsuThreshold: superpixelScores[c] <= otsuThreshold
belowOrAtOtsuThreshold(o, c) ==
    (o.superpixelScores[c] - o.minScore) * (o.nHistogramBins - 1)
        <= o.otsuThreshold * (o.maxScore - o.minScore)

\* superpixelScores[c] < otsuThreshold
belowOtsuThreshold(o, c) ==
    (o.superpixelScores[c] - o.minScore) * (o.nHistogramBins - 1)
        < o.otsuThreshold * (o.maxScore - o.minScore)

\* A variant of filterSuperpixels that records the choice for the
\* superpixel and skips its pixels.
RECURSIVE filterSuperpixelFlagsOnly(_, _)
filterSuperpixelFlagsOnly(o, endSuperpixel) ==
    IF o.k < endSuperpixel
    THEN LET choice == IF (IF o.selectBelowThreshold
                           THEN belowOtsuThreshold(o, o.k)
                           ELSE ~belowOtsuThreshold(o, o.k))
                       THEN 1 ELSE 0
         IN  filterSuperpixelFlagsOnly(
                 [o EXCEPT !.selectedSuperpixels[o.k] = choice, !.k = @ + 1],
                 endSuperpixel)
    ELSE o

\* LocalDataFilter::filterSuperpixels
RECURSIVE filterSuperpixels(_, _)
filterSuperpixels(o, endSuperpixel) ==
    IF o.k < endSuperpixel
    THEN LET choice == IF (IF o.selectBelowThreshold
                           THEN belowOtsuThreshold(o, o.k)
                           ELSE ~belowOtsuThreshold(o, o.k))
                       THEN 1 ELSE 0
             allPx == o.superpixellation.superpixels[o.k].allPx
         IN  filterSuperpixels(
                 [o EXCEPT !.selectedSuperpixels[o.k] = choice,
                           !.selectedPixels = [p \in DOMAIN @ |->
                                                 IF \E i \in DOMAIN allPx : allPx[i] = p
                                                 THEN choice ELSE @[p]],
                           !.k = @ + 1], endSuperpixel)
    ELSE o

\* LocalDataFilter::initializeOutput
LocalDataFilter_initializeOutput(o, imageOk) ==
    IF ~o.outputIsEnabled
    THEN [o |-> o, ok |-> FALSE]
    ELSE [o |-> [o EXCEPT !.outputInRow = (Width <= Height),
                          !.outputImage = IF imageOk THEN "valid" ELSE "nullimg"],
          ok |-> imageOk]

\* case GENERATE_SUPERPIXELS: failed = !SuperpixelFilter::increment(...);
\* r is what that call returned.
LocalDataFilter_generate(r) ==
    [o |-> [r.o EXCEPT !.failed = ~r.ok], diverges |-> r.diverges]

\* The switch(progress) of LocalDataFilter::increment.
LocalDataFilter_stage(o, incEnd, env) ==
    LET same(t) == [o |-> t, diverges |-> FALSE]
    IN  CASE o.progress = "GENERATE_SUPERPIXELS" ->
                LocalDataFilter_generate(SuperpixelFilter_increment(o, env))
          [] o.progress = "RGB2LAB" -> same([o EXCEPT !.lStarSelectionMap = "set"])
          [] o.progress = "COLLECT_STATISTICS" ->
                same(collectStatistics(
                    IF o.k = 0
                    THEN [o EXCEPT !.superpixelScores =
                                       Arr(o.superpixellation.nSuperpixels, UNINIT)]
                    ELSE o, incEnd, env.level))
          [] o.progress = "NORMALIZE_STATISTICS" -> same(normalizeStatistics(o, incEnd))
          [] o.progress = "CONSTRUCT_HISTOGRAM" ->
                constructHistogram(
                    IF o.k = 0
                    THEN LET bins == histogramBinCount(o.superpixellation.nSuperpixels)
                         IN  [o EXCEPT !.nHistogramBins = bins,
                                       !.histogram = Arr(bins, 0),
                                       !.inverseBinWidth =
                                           IF o.maxScore = o.minScore
                                           THEN "inf" ELSE "finite"]
                    ELSE o, incEnd, env.nanCast)
          [] o.progress = "CHOOSE_OTSU_THRESHOLD" -> same(chooseOtsuThreshold(o))
          [] o.progress = "FILTER_SUPERPIXELS" -> same(filterSuperpixels(o, incEnd))
          [] o.progress = "INITIALIZE_OUTPUT" ->
                LET r == LocalDataFilter_initializeOutput(o, env.imageOk)
                IN  same([r.o EXCEPT !.failed = ~r.ok])
          [] o.progress = "FILL_OUTPUT" -> same([o EXCEPT !.k = Max(o.k, incEnd)])
          [] o.progress = "FINALIZE_OUTPUT" -> same(o)
          [] o.progress = "END" -> same([o EXCEPT !.finished = TRUE])
          [] OTHER -> same([o EXCEPT !.failed = TRUE])

\* A variant of LocalDataFilter_incrementReturn that leaves in f what
\* SuperpixelFilter::increment wrote there.
LocalDataFilter_incrementReturnGenerated(r) ==
    [o |-> r.o, ok |-> ~r.o.failed, fSet |-> TRUE,
     f |-> r.o.finished \/ r.o.isSuperpixelGenerationFinished,
     diverges |-> r.diverges]

\* LocalDataFilter::increment
LocalDataFilter_incrementReturn(r) ==
    [o |-> r.o, ok |-> ~r.o.failed, fSet |-> TRUE, f |-> r.o.finished,
     diverges |-> r.diverges]

\* u is what updateKAndProgress produced.
LocalDataFilter_stageAfter(u, env) == LocalDataFilter_stage(u.o, u.incEnd, env)

LocalDataFilter_increment(o, env) ==
    IF o.failed
    THEN [o |-> o, ok |-> FALSE, fSet |-> FALSE, f |-> FALSE, diverges |-> FALSE]
    ELSE IF o.finished
         THEN [o |-> o, ok |-> FALSE, fSet |-> TRUE, f |-> o.finished, diverges |-> FALSE]
         ELSE LocalDataFilter_incrementReturn(
                  LocalDataFilter_stageAfter(LocalDataFilter_updateKAndProgress(o), env))

\* LocalDataFilter::isFinished
LocalDataFilter_isFinished(o) == o.finished

(***************************************************************************)
(* MidtoneFilter.  The thresholded lightness values are kept only through  *)
(* minLStar and maxLStar, as levels 0 .. MaxScoreLevel of the lightness    *)
(* range; lStarThresholded is "null" or "alloc", thresholdedImage "null"   *)
(* or "valid".                                                             *)
(***************************************************************************)
MidtoneFilterProgress ==
    << "START", "RGB2LAB", "THRESHOLD", "RESCALE", "CREATE_LAB_IMAGE",
       "LAB2RGB", "FILL_OUTPUT", "END" >>

\* MidtoneFilter::MidtoneFilter
MidtoneFilterNew ==
    AlgorithmNew @@
    [lStarInput |-> "null", lStarThresholded |-> "null",
     minLStar |-> MaxScoreLevel, maxLStar |-> 0,
     thresholdedImage |-> "null", progress |-> "START", k |-> 0]

\* MidtoneFilter::cleanup: Algorithm::cleanup is not called.
MidtoneFilter_cleanup(o) ==
    [o EXCEPT !.lStarInput = "null", !.thresholdedImage = "null",
              !.lStarThresholded = "null"]

\* MidtoneFilter::initialize, through Algorithm::initialize(ImageData*&),
\* which calls the virtual cleanup().
MidtoneFilter_initialize(o) ==
    [MidtoneFilter_cleanup(o) EXCEPT
        !.input = "own", !.failed = FALSE,
        !.minLStar = MaxScoreLevel, !.maxLStar = 0,
        !.progress = "START", !.k = 0]

\* MidtoneFilter::getLoopLimit
MidtoneFilter_getLoopLimit(o) ==
    IF o.progress \in {"THRESHOLD", "RESCALE"} THEN pixelCount ELSE 0

\* The switch of MidtoneFilter::updateKAndProgress.
MidtoneFilter_nextStage(o) ==
    CASE o.progress = "START" -> "RGB2LAB"
      [] o.progress = "RGB2LAB" -> "THRESHOLD"
      [] o.progress = "THRESHOLD" ->
            IF o.maxLStar - o.minLStar > 0 \/ o.minLStar - o.maxLStar > 0
            THEN "RESCALE" ELSE "CREATE_LAB_IMAGE"
      [] o.progress = "RESCALE" -> "CREATE_LAB_IMAGE"
      [] o.progress = "CREATE_LAB_IMAGE" ->
            IF o.outputIsEnabled THEN "LAB2RGB" ELSE "END"
      [] o.progress = "LAB2RGB" -> "FILL_OUTPUT"
      [] o.progress = "FILL_OUTPUT" -> "END"
      [] OTHER -> o.progress

\* MidtoneFilter::updateKAndProgress
MidtoneFilter_updateKAndProgress(o) ==
    LET o1 == IF o.k = MidtoneFilter_getLoopLimit(o)
              THEN [o EXCEPT !.k = 0, !.progress = MidtoneFilter_nextStage(o)]
              ELSE o
        loopLimit == MidtoneFilter_getLoopLimit(o1)
        incEnd == o1.k + (IF o1.progress \in {"THRESHOLD", "RESCALE"}
                          THEN MIDTONEFILTER_PIXEL_GRANULARITY ELSE 0)
    IN  [o |-> o1, incEnd |-> IF incEnd > loopLimit THEN loopLimit ELSE incEnd]

\* MidtoneFilter::thresholdImage: low and high are the least and the
\* greatest thresholded value among the pixels k .. endPixel-1.
thresholdImage(o, endPixel, low, high) ==
    [o EXCEPT !.maxLStar = IF o.k < endPixel /\ high > @ THEN high ELSE @,
              !.minLStar = IF o.k < endPixel /\ low < @ THEN low ELSE @,
              !.k = Max(o.k, endPixel)]

\* The switch(progress) of MidtoneFilter::increment.
MidtoneFilter_stage(o, incEnd, env) ==
    CASE o.progress = "RGB2LAB" -> [o EXCEPT !.lStarInput = "set"]
      [] o.progress = "THRESHOLD" ->
            thresholdImage(IF o.k = 0 THEN [o EXCEPT !.lStarThresholded = "alloc"] ELSE o,
                           incEnd, env.low, env.high)
      [] o.progress = "RESCALE" -> [o EXCEPT !.k = Max(o.k, incEnd)]
      [] o.progress = "CREATE_LAB_IMAGE" ->
            [o EXCEPT !.thresholdedImage = "valid", !.lStarThresholded = "null"]
      [] o.progress = "LAB2RGB" -> o
      [] o.progress = "FILL_OUTPUT" ->
            [o EXCEPT !.outputImage = IF env.imageOk THEN "valid" ELSE "nullimg"]
      [] o.progress = "END" -> [o EXCEPT !.finished = TRUE]
      [] OTHER -> [o EXCEPT !.failed = TRUE]

\* MidtoneFilter::increment
MidtoneFilter_increment(o, env) ==
    IF o.failed
    THEN [o |-> o, ok |-> FALSE, fSet |-> FALSE, f |-> FALSE, diverges |-> FALSE]
    ELSE IF o.finished
         THEN [o |-> o, ok |-> FALSE, fSet |-> TRUE, f |-> o.finished, diverges |-> FALSE]
         ELSE LET u == MidtoneFilter_updateKAndProgress(o)
                  o1 == MidtoneFilter_stage(u.o, u.incEnd, env)
              IN  [o |-> o1, ok |-> ~o1.failed, fSet |-> TRUE, f |-> o1.finished,
                   diverges |-> FALSE]

(***************************************************************************)
(* Rgb2LabGreyAlgorithm.  l is "null", "input" (points into the input      *)
(* image) or "dangling" (the image it points into was deleted); lCopy is   *)
(* "null" or "alloc"; outputData is "null", "valid" or "nolightness" (an   *)
(* ImageData built from a null lightness array).                           *)
(***************************************************************************)
\* Rgb2LabGreyAlgorithm::Rgb2LabGreyAlgorithm
Rgb2LabGreyAlgorithmNew ==
    AlgorithmNew @@ [progress |-> 0, l |-> "null", lCopy |-> "null", outputData |-> "null"]

\* Rgb2LabGreyAlgorithm::cleanup: Algorithm::cleanup deletes the input
\* image, into which l points.
Rgb2LabGreyAlgorithm_cleanup(o) ==
    Algorithm_cleanup(
        [o EXCEPT !.lCopy = "null", !.outputData = "null",
                  !.l = IF @ = "input" THEN "dangling" ELSE @])

\* Algorithm::initialize(ImageData*&) on a Rgb2LabGreyAlgorithm, which does
\* not override initialize: progress keeps its value.
Rgb2LabGreyAlgorithm_initialize(o) ==
    [Rgb2LabGreyAlgorithm_cleanup(o) EXCEPT !.input = "own"]

(***************************************************************************)
(* Rgb2LabGreyAlgorithm::increment.  Reading through a dangling l, and     *)
(* converting an ImageData that has no lightness array or does not exist,  *)
(* are undefined: env.wildReadTraps is whether the read through the        *)
(* dangling pointer faults, and the null dereferences do not return.       *)
(***************************************************************************)
Rgb2LabGreyAlgorithm_increment(o, env) ==
    LET done(o1) == [o |-> [o1 EXCEPT !.progress = @ + 1], ok |-> ~o1.failed,
                     fSet |-> TRUE, f |-> o1.finished, diverges |-> FALSE]
        lost == [o |-> o, ok |-> FALSE, fSet |-> FALSE, f |-> FALSE, diverges |-> TRUE]
    IN  CASE o.progress = 0 -> done([o EXCEPT !.l = "input"])
          [] o.progress = 1 ->
                IF o.l = "null" \/ (o.l = "dangling" /\ env.wildReadTraps)
                THEN lost
                ELSE done([o EXCEPT !.lCopy = "alloc"])
          [] o.progress = 2 ->
                done([o EXCEPT !.outputData = IF o.lCopy = "alloc" THEN "valid"
                                              ELSE "nolightness",
                               !.lCopy = "null"])
          [] o.progress = 3 ->
                IF o.outputData = "valid" THEN done([o EXCEPT !.finished = TRUE]) ELSE lost
          [] OTHER -> done(o)

\* Rgb2LabGreyAlgorithm::output: imageOk is the result of toImage.
Rgb2LabGreyAlgorithm_output(o, imageOk) ==
    IF ~o.outputIsEnabled
    THEN [o |-> o, ok |-> FALSE, image |-> "null", diverges |-> FALSE]
    ELSE IF o.outputData # "valid"
         THEN [o |-> [o EXCEPT !.progress = 0, !.finished = FALSE],
               ok |-> FALSE, image |-> "null", diverges |-> TRUE]
         ELSE [o |-> [o EXCEPT !.progress = 0, !.finished = FALSE, !.outputData = "null"],
               ok |-> imageOk, image |-> IF imageOk THEN "valid" ELSE "null",
               diverges |-> FALSE]

(***************************************************************************)
(* The environment of one call: what the call reads from the pixel values  *)
(* and from the allocator.  Each quantity is drawn only in the calls that  *)
(* read it and has its default value in all others.                        *)
(*   converged      errorChange <= SLIC_ERROR_THRESHOLD (k-means)          *)
(*   pick           winners of the distance comparisons of one quantum     *)
(*   imageOk        the output QImage could be allocated                   *)
(*   level          the statistic of each superpixel of one quantum        *)
(*   nanCast        what the conversion of NaN to an integer yields        *)
(*   low, high      range of the thresholded lightness of one quantum      *)
(*   wildReadTraps  a read through a dangling pointer faults               *)
(***************************************************************************)
NoPick == [p \in Pixels |-> SUPERPIXELLATION_NONE_LABEL]

DefaultEnv ==
    [converged |-> FALSE, pick |-> NoPick, imageOk |-> TRUE,
     level |-> [c \in Clusters |-> 0], nanCast |-> "zero",
     low |-> 0, high |-> 0, wildReadTraps |-> FALSE]

SLIC_environments(s) ==
    LET convergedChoices ==
            IF s.progress = "K_MEANS_ASSESS_ITERATION" /\ SLIC_stageEnds(s)
               /\ s.iterationCount > 1
            THEN BOOLEAN ELSE {FALSE}
        choices(c) ==
            LET u == SLIC_updateKAndProgress(s, c)
            IN  {[DefaultEnv EXCEPT !.converged = c, !.pick = pk, !.imageOk = ok] :
                    pk \in (IF u.s.progress = "K_MEANS_LABEL_PIXELS"
                            THEN [Pixels -> (u.s.k .. (u.incEnd - 1))
                                            \cup {SUPERPIXELLATION_NONE_LABEL}]
                            ELSE {NoPick}),
                    ok \in (IF u.s.progress = "INITIALIZE_OUTPUT"
                            THEN BOOLEAN ELSE {TRUE})}
    IN  IF s.failed \/ s.finished THEN {DefaultEnv}
        ELSE UNION {choices(c) : c \in convergedChoices}

LocalDataFilter_environments(o) ==
    LET u == LocalDataFilter_updateKAndProgress(o)
        quantum == u.o.k .. (u.incEnd - 1)
    IN  IF o.failed \/ o.finished THEN {DefaultEnv}
        ELSE CASE u.o.progress = "GENERATE_SUPERPIXELS" ->
                    SLIC_environments(o.superpixelGenerator)
               [] u.o.progress = "COLLECT_STATISTICS" /\ o.basis # "SIZE" ->
                    {[DefaultEnv EXCEPT !.level =
                          [c \in Clusters |-> IF c \in quantum THEN g[c] ELSE 0]] :
                        g \in [quantum -> ScoreLevels]}
               [] u.o.progress = "CONSTRUCT_HISTOGRAM" /\ o.maxScore = o.minScore ->
                    {[DefaultEnv EXCEPT !.nanCast = c] : c \in {"zero", "trap"}}
               [] u.o.progress = "INITIALIZE_OUTPUT" ->
                    {[DefaultEnv EXCEPT !.imageOk = ok] : ok \in BOOLEAN}
               [] OTHER -> {DefaultEnv}

MidtoneFilter_environments(o) ==
    LET u == MidtoneFilter_updateKAndProgress(o)
    IN  IF o.failed \/ o.finished THEN {DefaultEnv}
        ELSE CASE u.o.progress = "THRESHOLD" ->
                    {[DefaultEnv EXCEPT !.low = lo, !.high = hi] :
                        lo \in ScoreLevels, hi \in ScoreLevels} \ 
                    {e \in {[DefaultEnv EXCEPT !.low = lo, !.high = hi] :
                                lo \in ScoreLevels, hi \in ScoreLevels} : e.low > e.high}
               [] u.o.progress = "FILL_OUTPUT" ->
                    {[DefaultEnv EXCEPT !.imageOk = ok] : ok \in BOOLEAN}
               [] OTHER -> {DefaultEnv}

Rgb2LabGreyAlgorithm_environments(o) ==
    IF o.progress = 1 /\ o.l = "dangling"
    THEN {[DefaultEnv EXCEPT !.wildReadTraps = t] : t \in BOOLEAN}
    ELSE {DefaultEnv}

(***************************************************************************)
(* Dispatch on the class of the object (the virtual calls of Algorithm).   *)
(***************************************************************************)
Kinds == {"SLIC", "LocalDataFilter", "MidtoneFilter", "Rgb2LabGreyAlgorithm"}

\* The object after its constructor; b is the basis of a LocalDataFilter.
Constructed(c, b) ==
    CASE c = "SLIC" -> SLICNew
      [] c = "LocalDataFilter" -> LocalDataFilterNew(b)
      [] c = "MidtoneFilter" -> MidtoneFilterNew
      [] OTHER -> Rgb2LabGreyAlgorithmNew

\* initialize(QVector<ImageData*>*&)
Initialize(c, o, dimensionsAgree) ==
    CASE c = "SLIC" -> SLIC_initialize(o)
      [] c = "LocalDataFilter" -> LocalDataFilter_initialize(o, dimensionsAgree)
      [] c = "MidtoneFilter" -> MidtoneFilter_initialize(o)
      [] OTHER -> Rgb2LabGreyAlgorithm_initialize(o)

Environments(c, o) ==
    CASE c = "SLIC" -> SLIC_environments(o)
      [] c = "LocalDataFilter" -> LocalDataFilter_environments(o)
      [] c = "MidtoneFilter" -> MidtoneFilter_environments(o)
      [] OTHER -> Rgb2LabGreyAlgorithm_environments(o)

\* increment(bool&, QString&); every class returns a record with the
\* object under field s.
IncrementReturn(r) ==
    [s |-> r.o, ok |-> r.ok, fSet |-> r.fSet, f |-> r.f, diverges |-> r.diverges]

IncrementOf(c, o, env) ==
    CASE c = "SLIC" -> SLIC_increment(o, env)
      [] c = "LocalDataFilter" -> IncrementReturn(LocalDataFilter_increment(o, env))
      [] c = "MidtoneFilter" -> IncrementReturn(MidtoneFilter_increment(o, env))
      [] OTHER -> IncrementReturn(Rgb2LabGreyAlgorithm_increment(o, env))

\* output(QImage*&, QByteArray*&)
OutputOf(c, o, imageOk) ==
    IF c = "Rgb2LabGreyAlgorithm"
    THEN Rgb2LabGreyAlgorithm_output(o, imageOk)
    ELSE Algorithm_output(o) @@ [diverges |-> FALSE]

\* isFinished()
IsFinished(c, o) ==
    IF c = "LocalDataFilter" THEN LocalDataFilter_isFinished(o) ELSE o.finished

(***************************************************************************)
(* The state: one algorithm object (obj) of class kind, driven by one      *)
(* caller.  pc is "stuck" once a call has not returned (it loops forever   *)
(* or the process faults), ret is what the last call returned (its result, *)
(* its out-parameters and the Superpixellation it handed out), and run     *)
(* records, for the current run, whether initialize has succeeded and      *)
(* whether increment has reported done through its finished parameter.     *)
(***************************************************************************)
VARIABLES kind, obj, pc, ret, run

vars == << kind, obj, pc, ret, run >>

NoReturn ==
    [op |-> "none", ok |-> FALSE, fSet |-> FALSE, f |-> FALSE, image |-> "null",
     superpixellation |-> NoSuperpixellation]

Returned(op, ok) == [NoReturn EXCEPT !.op = op, !.ok = ok]

NoRun == [initialized |-> FALSE, reportedDone |-> FALSE]

Init ==
    /\ kind \in Kinds
    /\ \E b \in {"SIZE", "STDDEV_LSTAR", "EXTERNAL"} : obj = Constructed(kind, b)
    /\ pc = "ready"
    /\ ret = NoReturn
    /\ run = NoRun

\* Whether this call of initialize runs SLIC::cleanup on a superpixel array
\* that still has unassigned entries: the SLIC object itself, or the
\* generator of a filter that the call reaches (LocalDataFilter::initialize
\* skips SuperpixelFilter::initialize when failed is set).
InitializeReadsUninitialized(c, o, dimensionsAgree) ==
    CASE c = "SLIC" -> SLIC_cleanupReadsUninitialized(o)
      [] c = "LocalDataFilter" ->
            /\ ~o.failed
            /\ (o.basis = "EXTERNAL" => dimensionsAgree)
            /\ SLIC_cleanupReadsUninitialized(o.superpixelGenerator)
      [] OTHER -> FALSE

\* The caller hands a vector of images to initialize; for a LocalDataFilter
\* with the EXTERNAL basis the selection map may have another size.  When
\* cleanup meets an unassigned entry of the superpixel array, the pointer it
\* reads is either null (wild = FALSE) or not, and then the delete faults.
DoInitialize ==
    /\ pc = "ready"
    /\ \E dimensionsAgree, wild \in BOOLEAN :
          /\ (dimensionsAgree \/ (kind = "LocalDataFilter" /\ obj.basis = "EXTERNAL"))
          /\ wild => InitializeReadsUninitialized(kind, obj, dimensionsAgree)
          /\ IF wild
             THEN /\ obj' = obj
                  /\ pc' = "stuck"
                  /\ ret' = NoReturn
                  /\ run' = run
             ELSE /\ obj' = Initialize(kind, obj, dimensionsAgree)
                  /\ pc' = pc
                  /\ ret' = Returned("initialize", ~obj'.failed)
                  /\ run' = [initialized |-> ~obj'.failed, reportedDone |-> FALSE]
    /\ UNCHANGED kind

\* The state after a call of increment that produced r.
Incremented(r) ==
    /\ obj' = r.s
    /\ pc' = IF r.diverges THEN "stuck" ELSE "ready"
    /\ ret' = IF r.diverges THEN NoReturn
              ELSE [Returned("increment", r.ok) EXCEPT !.fSet = r.fSet, !.f = r.f]
    /\ run' = IF ~r.diverges /\ r.fSet /\ r.f
              THEN [run EXCEPT !.reportedDone = TRUE] ELSE run

\* The caller calls increment on an object that holds an image or refuses
\* the call.  The calls of a Rgb2LabGreyAlgorithm are counted by progress,
\* which the model stops at MaxRgbProgress.
DoIncrement ==
    /\ pc = "ready"
    /\ IF kind = "Rgb2LabGreyAlgorithm"
       THEN obj.input # "null" /\ obj.progress < MaxRgbProgress
       ELSE obj.failed \/ obj.finished \/ obj.input # "null"
    /\ \E env \in Environments(kind, obj) : Incremented(IncrementOf(kind, obj, env))
    /\ UNCHANGED kind

\* The caller calls output.
DoOutput ==
    /\ pc = "ready"
    /\ \E imageOk \in BOOLEAN :
          /\ (imageOk \/ (kind = "Rgb2LabGreyAlgorithm" /\ obj.outputIsEnabled
                          /\ obj.outputData = "valid"))
          /\ LET r == OutputOf(kind, obj, imageOk)
             IN  /\ obj' = r.o
                 /\ pc' = IF r.diverges THEN "stuck" ELSE "ready"
                 /\ ret' = IF r.diverges THEN NoReturn
                           ELSE [Returned("output", r.ok) EXCEPT !.image = r.image]
    /\ UNCHANGED << kind, run >>

\* SLIC::outputSuperpixellation; a refused call changes nothing.
DoOutputSuperpixellation ==
    /\ pc = "ready" /\ kind = "SLIC"
    /\ LET r == SLIC_outputSuperpixellation(obj)
       IN  /\ r.ok
           /\ obj' = r.s
           /\ ret' = [Returned("outputSuperpixellation", r.ok) EXCEPT
                         !.superpixellation = Superpixellation(obj)]
    /\ UNCHANGED << kind, pc, run >>

\* SuperpixelFilter::outputFilteredSuperpixellation; a refused call changes
\* nothing.
DoOutputFilteredSuperpixellation ==
    /\ pc = "ready" /\ kind = "LocalDataFilter"
    /\ LET r == SuperpixelFilter_outputFilteredSuperpixellation(obj)
       IN  /\ r.ok
           /\ obj' = r.o
           /\ ret' = Returned("outputFilteredSuperpixellation", r.ok)
    /\ UNCHANGED << kind, pc, run >>

\* Algorithm::disableOutput
DoDisableOutput ==
    /\ pc = "ready"
    /\ obj.outputIsEnabled
    /\ obj' = [obj EXCEPT !.outputIsEnabled = FALSE]
    /\ ret' = Returned("disableOutput", TRUE)
    /\ UNCHANGED << kind, pc, run >>

Next ==
    \/ DoInitialize
    \/ DoIncrement
    \/ DoOutput
    \/ DoOutputSuperpixellation
    \/ DoOutputFilteredSuperpixellation
    \/ DoDisableOutput

Spec == Init /\ [][Next]_vars

\* The same caller driving a SLIC object only.
InitSLIC == Init /\ kind = "SLIC"

NextSLIC ==
    \/ DoInitialize
    \/ DoIncrement
    \/ DoOutput
    \/ DoOutputSuperpixellation
    \/ DoDisableOutput

SpecSLIC == InitSLIC /\ [][NextSLIC]_vars

(***************************************************************************)
(* The Superpixel constructor on its own: an image of SuperpixelWidth x    *)
(* SuperpixelHeight pixels with any labels, and the Superpixel objects     *)
(* built from it one cluster at a time.  The constructor receives the      *)
(* pixels of its cluster in ascending order, as createSuperpixels takes    *)
(* them from sortedPixels.                                                 *)
(***************************************************************************)
superpixelImage == ImageData(SuperpixelWidth, SuperpixelHeight)

\* The pixels from px on that carry the label, in ascending order.
RECURSIVE pixelsOfCluster(_, _, _)
pixelsOfCluster(labels, label, px) ==
    IF px \notin DOMAIN labels THEN << >>
    ELSE (IF labels[px] = label THEN << px >> ELSE << >>)
         \o pixelsOfCluster(labels, label, px + 1)

InitSuperpixel ==
    /\ kind = "Superpixel"
    /\ \E labels \in [0 .. (SuperpixelWidth * SuperpixelHeight - 1) -> Clusters] :
          obj = [img |-> superpixelImage, labels |-> labels,
                 superpixels |-> Arr(kParam, SuperpixelUninit)]
    /\ pc = "ready"
    /\ ret = NoReturn
    /\ run = NoRun

\* new Superpixel(k, superpixelPx, nPx, clusterLabels, *input)
DoCreateSuperpixel ==
    /\ pc = "ready" /\ kind = "Superpixel"
    /\ \E c \in Clusters :
          /\ obj.superpixels[c] = SuperpixelUninit
          /\ LET superpixelPx == pixelsOfCluster(obj.labels, c, 0)
             IN  obj' = [obj EXCEPT !.superpixels[c] =
                            Superpixel(c, superpixelPx, Len(superpixelPx),
                                       obj.labels, obj.img)]
    /\ ret' = Returned("Superpixel", TRUE)
    /\ UNCHANGED << kind, pc, run >>

NextSuperpixel == DoCreateSuperpixel

SpecSuperpixel == InitSuperpixel /\ [][NextSuperpixel]_vars

(***************************************************************************)
(* chooseOtsuThreshold on its own: a filter that has constructed any       *)
(* histogram in which every superpixel was counted in one bin.             *)
(***************************************************************************)
\* The number of superpixels counted in the bins 0 .. bin.
RECURSIVE histogramTotal(_, _)
histogramTotal(histogram, bin) ==
    IF bin < 0 THEN 0 ELSE histogram[bin] + histogramTotal(histogram, bin - 1)

InitOtsu ==
    /\ kind = "Otsu"
    /\ \E n \in 1 .. OtsuMaxSuperpixels :
       \E histogram \in [0 .. (OtsuBins - 1) -> 0 .. n] :
          /\ histogramTotal(histogram, OtsuBins - 1) = n
          /\ obj = [superpixellation |-> [NoSuperpixellation EXCEPT !.nSuperpixels = n],
                    histogram |-> histogram, nHistogramBins |-> OtsuBins,
                    otsuThreshold |-> UNINIT]
    /\ pc = "ready"
    /\ ret = NoReturn
    /\ run = NoRun

\* case CHOOSE_OTSU_THRESHOLD of LocalDataFilter::increment
DoChooseOtsuThreshold ==
    /\ pc = "ready" /\ kind = "Otsu"
    /\ obj.otsuThreshold = UNINIT
    /\ obj' = chooseOtsuThreshold(obj)
    /\ ret' = Returned("chooseOtsuThreshold", TRUE)
    /\ UNCHANGED << kind, pc, run >>

NextOtsu == DoChooseOtsuThreshold

SpecOtsu == InitOtsu /\ [][NextOtsu]_vars

(***************************************************************************)
(* Ownership of the data of one segmentation: the superpixel array, the    *)
(* label array and the image, held by up to MaxInstances Superpixellation  *)
(* objects that are shallow copies of one another, and by the callers that *)
(* transferImageOwnership made responsible for the image.  Every instance  *)
(* holds the same three pointers (the members are const); an instance is   *)
(* its life ("none", "live", "destroyed") and its two flags.  released     *)
(* counts the deletes of each of the three.                                *)
(***************************************************************************)
Instances == 1 .. MaxInstances

NoInstance == [life |-> "none", shareImage |-> FALSE, shareAll |-> FALSE]

\* Superpixellation::Superpixellation(Superpixellation&): the new instance.
SuperpixellationOfOther(other) ==
    [life |-> "live", shareImage |-> other.shareImage, shareAll |-> other.shareAll]

\* Superpixellation::~Superpixellation: the number of deletes of each of the
\* three after the destruction of instance i.
SuperpixellationDeletes(i, released) ==
    IF ~i.shareAll
    THEN [superpixels |-> released.superpixels + 1,
          img |-> released.img + (IF ~i.shareImage THEN 1 ELSE 0),
          superpixelLabels |-> released.superpixelLabels + 1]
    ELSE released

\* The lowest instance not constructed yet, 0 when there is none.
FreeInstance(o) ==
    IF \E n \in Instances : o.inst[n].life = "none"
    THEN CHOOSE n \in Instances :
            /\ o.inst[n].life = "none"
            /\ \A m \in Instances : m < n => o.inst[m].life # "none"
    ELSE 0

\* The first instance is built from the arrays of a generator by
\* Superpixellation(img, superpixelLabels, superpixels, nSuperpixels, sI);
\* with shareImage the caller stays responsible for the image.
InitTransfer ==
    /\ kind = "Superpixellation"
    /\ \E sI \in BOOLEAN :
          obj = [inst |-> [n \in Instances |->
                              IF n = 1
                              THEN [life |-> "live", shareImage |-> sI,
                                    shareAll |-> FALSE]
                              ELSE NoInstance],
                 released |-> [superpixels |-> 0, img |-> 0, superpixelLabels |-> 0],
                 callerImg |-> IF sI THEN 1 ELSE 0]
    /\ pc = "ready"
    /\ ret = NoReturn
    /\ run = NoRun

\* new Superpixellation(other); other.shareAll = true is the body of the
\* constructor.
DoShallowTransfer ==
    /\ pc = "ready" /\ kind = "Superpixellation"
    /\ FreeInstance(obj) # 0
    /\ \E other \in Instances :
          /\ obj.inst[other].life = "live"
          /\ obj' = [obj EXCEPT
                       !.inst[FreeInstance(obj)] = SuperpixellationOfOther(obj.inst[other]),
                       !.inst[other].shareAll = TRUE]
    /\ ret' = Returned("Superpixellation", TRUE)
    /\ UNCHANGED << kind, pc, run >>

\* new FilteredSuperpixellation(i, superpixellation, sS, sP): a shallow
\* transfer followed by delete superpixellation.
DoFilteredTransfer ==
    /\ pc = "ready" /\ kind = "Superpixellation"
    /\ FreeInstance(obj) # 0
    /\ \E other \in Instances :
          /\ obj.inst[other].life = "live"
          /\ obj' = [obj EXCEPT
                       !.inst[FreeInstance(obj)] = SuperpixellationOfOther(obj.inst[other]),
                       !.inst[other] = [@ EXCEPT !.shareAll = TRUE,
                                                 !.life = "destroyed"],
                       !.released =
                           SuperpixellationDeletes(
                               [obj.inst[other] EXCEPT !.shareAll = TRUE],
                               obj.released)]
    /\ ret' = Returned("FilteredSuperpixellation", TRUE)
    /\ UNCHANGED << kind, pc, run >>

\* transferImageOwnership(img) on a live instance.  An instance that would
\* have deleted the image makes one more caller responsible for it; an
\* instance with shareImage set hands the pointer to a party that is
\* responsible already.
DoTransferImageOwnership ==
    /\ pc = "ready" /\ kind = "Superpixellation"
    /\ \E i \in Instances :
          /\ obj.inst[i].life = "live"
          /\ obj' = [obj EXCEPT
                       !.inst[i].shareImage = TRUE,
                       !.callerImg = IF obj.inst[i].shareImage THEN @ ELSE @ + 1]
    /\ ret' = Returned("transferImageOwnership", TRUE)
    /\ UNCHANGED << kind, pc, run >>

\* delete of a live instance
DoDestroy ==
    /\ pc = "ready" /\ kind = "Superpixellation"
    /\ \E i \in Instances :
          /\ obj.inst[i].life = "live"
          /\ obj' = [obj EXCEPT
                       !.inst[i].life = "destroyed",
                       !.released = SuperpixellationDeletes(obj.inst[i], obj.released)]
    /\ ret' = Returned("~Superpixellation", TRUE)
    /\ UNCHANGED << kind, pc, run >>

\* A caller that is responsible for the image deletes it.
DoCallerDeletesImage ==
    /\ pc = "ready" /\ kind = "Superpixellation"
    /\ obj.callerImg > 0
    /\ obj' = [obj EXCEPT !.callerImg = @ - 1, !.released.img = @ + 1]
    /\ ret' = Returned("delete img", TRUE)
    /\ UNCHANGED << kind, pc, run >>

NextTransfer ==
    \/ DoShallowTransfer
    \/ DoFilteredTransfer
    \/ DoTransferImageOwnership
    \/ DoDestroy
    \/ DoCallerDeletesImage

SpecTransfer == InitTransfer /\ [][NextTransfer]_vars

(***************************************************************************)
(* Ownership of the input images.                                          *)
(***************************************************************************)
\* LocalDataFilter::initialize(QVector<ImageData*>*&): who holds each image
\* of the vector, and the caller's pointer to the vector, when the call
\* returns.  The generator takes the first image when
\* SuperpixelFilter::initialize is reached, the else branch deletes both
\* images when failed is set at the end.
LocalDataFilter_initializeHolders(o, dimensionsAgree) ==
    LET reachesGenerator == ~(o.failed \/ (o.basis = "EXTERNAL" /\ ~dimensionsAgree))
        after == LocalDataFilter_initialize(o, dimensionsAgree)
    IN  [firstImage |-> (IF reachesGenerator THEN {"generator"} ELSE {})
                           \cup (IF after.failed THEN {"deleted"} ELSE {}),
         secondImage |-> IF o.basis # "EXTERNAL" THEN {}
                         ELSE IF ~after.failed THEN {"selectionMap"} ELSE {"deleted"},
         images |-> "null"]

\* The objects that delete the image of the current run when they are
\* cleaned up or destroyed: the generator (SLIC::input), the filter
\* (Algorithm::cleanup deletes input unless SuperpixelFilter::cleanup has set
\* it to null) and the Superpixellation the filter holds.
ImageOwners(o) ==
    (IF o.superpixelGenerator.input = "own" THEN {"generator"} ELSE {})
       \cup (IF o.input # "null" /\ o.canDeleteInput THEN {"filter"} ELSE {})
       \cup (IF o.superpixellation # NoSuperpixellation THEN {"superpixellation"} ELSE {})

(***************************************************************************)
(* The choice of the number of histogram bins at the start of the          *)
(* CONSTRUCT_HISTOGRAM stage, for a superpixellation of 1 to               *)
(* MaxHistogramSuperpixels superpixels.                                    *)
(***************************************************************************)
InitBins ==
    /\ kind = "HistogramBins"
    /\ \E n \in 1 .. MaxHistogramSuperpixels :
          obj = [superpixellation |-> [NoSuperpixellation EXCEPT !.nSuperpixels = n],
                 nHistogramBins |-> 0]
    /\ pc = "ready"
    /\ ret = NoReturn
    /\ run = NoRun

\* case CONSTRUCT_HISTOGRAM of LocalDataFilter::increment, k == 0
DoChooseBinCount ==
    /\ pc = "ready" /\ kind = "HistogramBins"
    /\ obj.nHistogramBins = 0
    /\ obj' = [obj EXCEPT !.nHistogramBins =
                             histogramBinCount(obj.superpixellation.nSuperpixels)]
    /\ ret' = Returned("constructHistogram", TRUE)
    /\ UNCHANGED << kind, pc, run >>

NextBins == DoChooseBinCount

SpecBins == InitBins /\ [][NextBins]_vars

(***************************************************************************)
(* A BinaryHeap<SizeLabelsPair, pxind> driven by a caller that interleaves *)
(* add, remove, increase and decrease.  obj.heap is the heap,              *)
(* obj.insertions the number of calls of add so far, obj.handle what the   *)
(* last add returned, obj.removed the handles of the elements remove has   *)
(* returned, and obj.outOfBounds whether a table has been indexed outside  *)
(* its bounds.  array::operator[] asserts its index: a call that indexes   *)
(* outside a table either stops there (the assertion, or a fault) or, in a *)
(* build without assertions, writes behind the table and goes on; the      *)
(* second outcome is modelled as a table that is one entry longer.         *)
(***************************************************************************)
HeapPairs ==
    {[size |-> sz, cluster |-> c, component |-> 0] :
        sz \in 1 .. MaxPairSize, c \in 0 .. 1}

\* The handles of the elements in the heap.
heapHandles(h) ==
    {i \in 0 .. (h.nIndex - 1) : h.indexToA[i] # BINARYHEAP_INVALID_INDEX}

\* BinaryHeap::add: whether a[n], indexToA[nIndex] and aToIndex[n] are
\* inside their tables after the resize.
heapAddInBounds(h) ==
    LET h1 == IF h.n + 1 > ArrLen(h.a) THEN heapResize(h, TRUE) ELSE h
    IN  /\ h1.n < ArrLen(h1.a)
        /\ h1.nIndex < ArrLen(h1.indexToA)
        /\ h1.n < ArrLen(h1.aToIndex)

\* operator[](i).size -= 1 followed by decrease(i), i a handle.
heapShrinkAndDecrease(h, i) ==
    LET heapIndex == h.indexToA[i]
        h1 == [h EXCEPT !.a[heapIndex].size = @ - 1]
    IN  trickleDown(h1, heapIndex)

InitHeap ==
    /\ kind = "BinaryHeap"
    /\ obj = [heap |-> BinaryHeapNew, insertions |-> 0, handle |-> UNINIT,
              removed |-> {}, outOfBounds |-> FALSE]
    /\ pc = "ready"
    /\ ret = NoReturn
    /\ run = NoRun

\* add(x)
DoAdd ==
    /\ pc = "ready" /\ kind = "BinaryHeap"
    /\ obj.insertions < MaxInsertions
    /\ \E x \in HeapPairs, traps \in BOOLEAN :
          /\ traps => ~heapAddInBounds(obj.heap)
          /\ IF traps
             THEN /\ obj' = [obj EXCEPT !.outOfBounds = TRUE]
                  /\ pc' = "stuck"
                  /\ ret' = NoReturn
             ELSE LET h == IF heapAddInBounds(obj.heap) THEN obj.heap
                           ELSE [obj.heap EXCEPT
                                    !.indexToA = CopyInto(@, obj.heap.nIndex + 1,
                                                          ArrLen(@), UNINIT)]
                  IN  /\ obj' = [obj EXCEPT
                                   !.heap = heapAdd(h, x),
                                   !.insertions = @ + 1,
                                   !.handle = heapAdd(h, x).nIndex - 1,
                                   !.outOfBounds = @ \/ ~heapAddInBounds(obj.heap)]
                      /\ pc' = pc
                      /\ ret' = Returned("add", TRUE)
    /\ UNCHANGED << kind, run >>

\* remove()
DoRemove ==
    /\ pc = "ready" /\ kind = "BinaryHeap"
    /\ obj.heap.n > 0
    /\ obj' = [obj EXCEPT !.heap = heapRemove(obj.heap),
                          !.removed = @ \cup {obj.heap.aToIndex[0]}]
    /\ ret' = Returned("remove", TRUE)
    /\ UNCHANGED << kind, pc, run >>

\* The priority of the element of handle i is raised, then increase(i).
DoIncrease ==
    /\ pc = "ready" /\ kind = "BinaryHeap"
    /\ \E i \in heapHandles(obj.heap) :
          /\ obj.heap.a[obj.heap.indexToA[i]].size < MaxPairSize
          /\ obj' = [obj EXCEPT !.heap = heapGrowAndIncrease(obj.heap, i)]
    /\ ret' = Returned("increase", TRUE)
    /\ UNCHANGED << kind, pc, run >>

\* The priority of the element of handle i is lowered, then decrease(i).
DoDecrease ==
    /\ pc = "ready" /\ kind = "BinaryHeap"
    /\ \E i \in heapHandles(obj.heap) :
          /\ obj.heap.a[obj.heap.indexToA[i]].size > 1
          /\ obj' = [obj EXCEPT !.heap = heapShrinkAndDecrease(obj.heap, i)]
    /\ ret' = Returned("decrease", TRUE)
    /\ UNCHANGED << kind, pc, run >>

NextHeap ==
    \/ DoAdd
    \/ DoRemove
    \/ DoIncrease
    \/ DoDecrease

SpecHeap == InitHeap /\ [][NextHeap]_vars

(***************************************************************************)
(* SLIC::initializeCenters on an image of any size up to MaxSeedWidth by   *)
(* MaxSeedHeight with any kParam up to MaxSeedK.  The conversions are      *)
(* computed exactly: a ratio is kept as numerator and denominator, ceil,   *)
(* floor and round are integer divisions.  With S = 0 the divisions by S   *)
(* yield infinities and NaN whose conversion to pxind is undefined: the    *)
(* call faults on the pixel it then reads, or goes on with positions that  *)
(* are not pixels (WildCenter).  A seed outside the image makes sobelLabAt *)
(* read outside the pixel arrays, which faults or not.                     *)
(***************************************************************************)
\* S = round(sqrt(pixelCount / kParam)) of SLIC::initialize, and the grid of
\* initializeCenters: widthInS, heightInS, sDiv2Width, sDiv2Height and
\* lengthInSSquares.
seedGrid(w, h, kP) ==
    LET S == CHOOSE s \in 0 .. (w * h) :
                 /\ 4 * w * h < (2 * s + 1) * (2 * s + 1) * kP
                 /\ s > 0 => (2 * s - 1) * (2 * s - 1) * kP <= 4 * w * h
        widthInS == IF S = 0 THEN 0 ELSE (w + S - 1) \div S
        heightInS == IF S = 0 THEN 0 ELSE (h + S - 1) \div S
    IN  [S |-> S, widthInS |-> widthInS, heightInS |-> heightInS,
         sDiv2Width |-> IF S = 0 THEN 0 ELSE (w \div widthInS) \div 2,
         sDiv2Height |-> IF S = 0 THEN 0 ELSE (h \div heightInS) \div 2,
         lengthInSSquares |-> widthInS * heightInS]

WildCenter == [square |-> -1, x |-> -1, y |-> -1]

\* The body of the loop of initializeCenters up to xyToK: the grid square
\* adjustedK of cluster k and the pixel at its centre.
seedCenter(g, w, h, kP, k) ==
    IF g.S = 0 THEN WildCenter
    ELSE LET adjustedK == (2 * k * g.lengthInSSquares + kP) \div (2 * kP)
         IN  [square |-> adjustedK,
              x |-> (((adjustedK % g.widthInS) * w) \div g.widthInS) + g.sDiv2Width,
              y |-> (((adjustedK \div g.widthInS) * h) \div g.heightInS) + g.sDiv2Height]

InImage(w, h, x, y) == x >= 0 /\ x < w /\ y >= 0 /\ y < h

\* The pixel the center is moved to: the seed, or the neighbour at offset
\* (dx, dy) when eightNeighbours lists it and its gradient is the lowest.
seedShift(c, w, h, dx, dy) ==
    IF InImage(w, h, c.x, c.y) /\ InImage(w, h, c.x + dx, c.y + dy)
    THEN [x |-> c.x + dx, y |-> c.y + dy]
    ELSE [x |-> c.x, y |-> c.y]

InitSeed ==
    /\ kind = "Seed"
    /\ \E w \in 1 .. MaxSeedWidth, h \in 1 .. MaxSeedHeight, kP \in 1 .. MaxSeedK :
          obj = [width |-> w, height |-> h, kParam |-> kP,
                 grid |-> NULL, seeds |-> NULL, currentCenters |-> NULL]
    /\ pc = "ready"
    /\ ret = NoReturn
    /\ run = NoRun

\* The calls of increment of the SEED_CENTERS stage, taken together.
DoInitializeCenters ==
    /\ pc = "ready" /\ kind = "Seed"
    /\ obj.seeds = NULL
    /\ LET g == seedGrid(obj.width, obj.height, obj.kParam)
           seeds == [k \in 0 .. (obj.kParam - 1) |->
                        seedCenter(g, obj.width, obj.height, obj.kParam, k)]
           outside == \E k \in DOMAIN seeds :
                         ~InImage(obj.width, obj.height, seeds[k].x, seeds[k].y)
       IN  \E dx, dy \in {-1, 0, 1}, traps \in BOOLEAN :
              /\ traps => outside
              /\ outside => dx = 0 /\ dy = 0
              /\ obj' = [obj EXCEPT
                           !.grid = g,
                           !.seeds = seeds,
                           !.currentCenters =
                               IF traps THEN NULL
                               ELSE [k \in DOMAIN seeds |->
                                        seedShift(seeds[k], obj.width, obj.height,
                                                  dx, dy)]]
              /\ pc' = IF traps THEN "stuck" ELSE "ready"
              /\ ret' = IF traps THEN NoReturn ELSE Returned("initializeCenters", TRUE)
    /\ UNCHANGED << kind, run >>

NextSeed == DoInitializeCenters

SpecSeed == InitSeed /\ [][NextSeed]_vars

(***************************************************************************)
(* Two SLIC objects after the last K_MEANS_ASSESS_ITERATION stage of the   *)
(* same image, with the same labels: fine is incremented with the          *)
(* granularities of the build, coarse with granularities of at least       *)
(* kParam clusters and pixelCount pixels, so that updateKAndProgress       *)
(* clamps every incEnd to the loop limit and every stage takes one call.   *)
(* pc is "stuck" once a call on fine has not returned.                     *)
(***************************************************************************)
\* The object when the k-means loop has ended with the given labels.
kmeansResult(labels) ==
    LET count(c) == Cardinality({p \in Pixels : labels[p] = c})
    IN  [SLIC_initialize(SLICNew) EXCEPT
            !.progress = "K_MEANS_ASSESS_ITERATION", !.k = kParam,
            !.iterationCount = SLIC_MAX_KMEANS_ITERATIONS - 1,
            !.clusterSearchWindow = "alloc",
            !.clusterLabels = labels,
            !.nPixelsPerCluster = [c \in Clusters |-> count(c)],
            !.currentCenters = [c \in Clusters |->
                                   IF count(c) = 0 THEN "nan" ELSE "valid"]]

\* SLIC::updateKAndProgress when inc is at least the loop limit: incEnd is
\* clamped to the loop limit.
SLIC_updateKAndProgressWholeStage(s, converged) ==
    LET u == SLIC_updateKAndProgress(s, converged)
    IN  [s |-> u.s, incEnd |-> SLIC_getLoopLimit(u.s)]

\* SLIC::increment with such granularities.
SLIC_incrementWholeStage(s, env) ==
    IF s.failed
    THEN [s |-> s, ok |-> FALSE, fSet |-> FALSE, f |-> FALSE, diverges |-> FALSE]
    ELSE IF s.finished
         THEN [s |-> s, ok |-> FALSE, fSet |-> TRUE, f |-> s.finished, diverges |-> FALSE]
         ELSE SLIC_incrementReturn(
                  SLIC_stageAfter(SLIC_updateKAndProgressWholeStage(s, env.converged), env))

InitGranularity ==
    /\ kind = "Granularity"
    /\ \E labels \in [Pixels -> Clusters] :
          obj = [fine |-> kmeansResult(labels), coarse |-> kmeansResult(labels),
                 coarseStuck |-> FALSE]
    /\ pc = "ready"
    /\ ret = NoReturn
    /\ run = NoRun

DoFineIncrement ==
    /\ kind = "Granularity" /\ pc = "ready"
    /\ ~obj.fine.finished /\ ~obj.fine.failed
    /\ LET r == SLIC_increment(obj.fine, DefaultEnv)
       IN  /\ obj' = [obj EXCEPT !.fine = r.s]
           /\ pc' = IF r.diverges THEN "stuck" ELSE "ready"
           /\ ret' = IF r.diverges THEN NoReturn
                     ELSE [Returned("increment", r.ok) EXCEPT !.fSet = r.fSet, !.f = r.f]
    /\ UNCHANGED << kind, run >>

DoCoarseIncrement ==
    /\ kind = "Granularity"
    /\ ~obj.coarseStuck
    /\ ~obj.coarse.finished /\ ~obj.coarse.failed
    /\ LET r == SLIC_incrementWholeStage(obj.coarse, DefaultEnv)
       IN  obj' = [obj EXCEPT !.coarse = r.s, !.coarseStuck = r.diverges]
    /\ UNCHANGED << kind, pc, ret, run >>

NextGranularity == DoFineIncrement \/ DoCoarseIncrement

SpecGranularity == InitGranularity /\ [][NextGranularity]_vars

(***************************************************************************)
(* A LocalDataFilter whose generator may fail.  SuperpixelFilter holds an  *)
(* ISuperpixelGenerator, whose increment and outputSuperpixellation may    *)
(* return failure at any call; the SLIC object of the filter, with its     *)
(* output disabled, never does.  Here a call of the generator either       *)
(* behaves as SLIC does or returns failure, and run.generatorFailed        *)
(* records that it has.  The filter's own output image can be allocated.   *)
(***************************************************************************)
\* ISuperpixelGenerator::increment returning failure.
Generator_incrementFails(s) ==
    [s |-> [s EXCEPT !.failed = TRUE], ok |-> FALSE, fSet |-> TRUE, f |-> s.finished,
     diverges |-> FALSE]

\* ISuperpixelGenerator::outputSuperpixellation returning failure.
Generator_outputSuperpixellationFails(s) == [s |-> s, ok |-> FALSE]

\* SuperpixelFilter::increment when the call it makes on the generator
\* returns failure.
SuperpixelFilter_incrementGeneratorFails(o) ==
    IF o.failed \/ o.finished
    THEN [o |-> o, ok |-> FALSE, diverges |-> FALSE]
    ELSE IF o.superpixelGenerator.finished
         THEN SuperpixelFilter_takeSuperpixellation(
                  o, Generator_outputSuperpixellationFails(o.superpixelGenerator))
         ELSE SuperpixelFilter_generatorStep(
                  o, Generator_incrementFails(o.superpixelGenerator))

InitGenerator ==
    /\ kind = "FilterOfGenerator"
    /\ \E b \in {"SIZE", "STDDEV_LSTAR", "EXTERNAL"} :
          obj = LocalDataFilter_initialize(LocalDataFilterNew(b), TRUE)
    /\ pc = "ready"
    /\ ret = Returned("initialize", TRUE)
    /\ run = [initialized |-> TRUE, reportedDone |-> FALSE, generatorFailed |-> FALSE]

\* LocalDataFilter::increment with a generator that behaves as SLIC does.
DoFilterIncrement ==
    /\ kind = "FilterOfGenerator" /\ pc = "ready"
    /\ \E env \in {e \in LocalDataFilter_environments(obj) : e.imageOk} :
          Incremented(IncrementReturn(LocalDataFilter_increment(obj, env)))
    /\ UNCHANGED kind

\* LocalDataFilter::increment in GENERATE_SUPERPIXELS when the generator
\* returns failure.
DoFilterIncrementGeneratorFails ==
    /\ kind = "FilterOfGenerator" /\ pc = "ready"
    /\ ~obj.failed /\ ~obj.finished
    /\ LET u == LocalDataFilter_updateKAndProgress(obj)
           r == LocalDataFilter_incrementReturn(
                    LocalDataFilter_generate(SuperpixelFilter_incrementGeneratorFails(u.o)))
       IN  /\ u.o.progress = "GENERATE_SUPERPIXELS"
           /\ obj' = r.o
           /\ pc' = "ready"
           /\ ret' = [Returned("increment", r.ok) EXCEPT !.fSet = r.fSet, !.f = r.f]
           /\ run' = [run EXCEPT !.generatorFailed = TRUE,
                                 !.reportedDone = @ \/ (r.fSet /\ r.f)]
    /\ UNCHANGED kind

NextGenerator == DoFilterIncrement \/ DoFilterIncrementGeneratorFails

SpecGenerator == InitGenerator /\ [][NextGenerator]_vars

(***************************************************************************)
(* AlgorithmThread.  Two threads: the controlling thread, which calls      *)
(* processImages, stopProcess and the destructor one after the other, and  *)
(* the worker thread, which executes run().  Each takes one step at a      *)
(* time between two accesses to the data they share (m_abort, alg and the  *)
(* algorithm alg points to).  obj is the AlgorithmThread object together   *)
(* with the controlling thread's position (ctl), the algorithms deleted so *)
(* far and whether the QThread is running; pc is the worker's position in  *)
(* run(), ret holds the locals of run(), and run counts the signals of the *)
(* current run.  Algorithms are numbered from 1 in the order in which they *)
(* are passed to processImages; alg = 0 is the null pointer.  The          *)
(* algorithm behind alg is any Algorithm: its calls return any result the  *)
(* interface allows, and finish within MaxThreadIncrements calls.          *)
(***************************************************************************)
AlgorithmThreadNew ==
    [m_abort |-> FALSE, alg |-> 0, locked |-> FALSE, deleted |-> {}, created |-> 0,
     stops |-> 0, running |-> FALSE, ctl |-> "idle", ub |-> FALSE]

RunLocals == [ok |-> TRUE, finished |-> FALSE, increments |-> 0]

RunSignals(n) ==
    [number |-> n, stopCalled |-> FALSE, aborted |-> FALSE, ended |-> FALSE,
     sendStatus |-> 0, sendOutput |-> 0, sendFail |-> 0, statusAfterEnd |-> FALSE]

\* AlgorithmThread::cleanupAlgorithm
cleanupAlgorithm(o) ==
    IF o.alg # 0 THEN [o EXCEPT !.deleted = @ \cup {o.alg}, !.alg = 0] ELSE o

\* alg points to an algorithm that has not been deleted.
AlgUsable(o) == o.alg # 0 /\ o.alg \notin o.deleted

\* The worker is about to read m_abort, which it does without the mutex,
\* while the controlling thread is about to write it.
AbortRace ==
    /\ pc \in {"checkInitialize", "checkIncrement", "checkOutput"}
    /\ obj.ctl \in {"processImages_write", "stopProcess_write", "destructor_write"}

\* What the read of m_abort in run() can yield: its value, or during a
\* write of the controlling thread the value being written.
AbortRead ==
    IF AbortRace
    THEN {obj.m_abort, obj.ctl # "processImages_write"}
    ELSE {obj.m_abort}

InitThread ==
    /\ kind = "AlgorithmThread"
    /\ obj = AlgorithmThreadNew
    /\ pc = "idle"
    /\ ret = RunLocals
    /\ run = RunSignals(0)

\* processImages: mutex.lock()
ProcessImagesLock ==
    /\ kind = "AlgorithmThread" /\ obj.ctl = "idle" /\ obj.created < MaxAlgorithms
    /\ obj' = [obj EXCEPT !.locked = TRUE, !.ctl = "processImages_write"]
    /\ UNCHANGED << kind, pc, ret, run >>

\* processImages: m_abort = false; mutex.unlock()
ProcessImagesWrite ==
    /\ kind = "AlgorithmThread" /\ obj.ctl = "processImages_write"
    /\ obj' = [obj EXCEPT !.m_abort = FALSE, !.locked = FALSE, !.ctl = "processImages_cleanup"]
    /\ UNCHANGED << kind, pc, ret, run >>

\* processImages: cleanupAlgorithm()
ProcessImagesCleanup ==
    /\ kind = "AlgorithmThread" /\ obj.ctl = "processImages_cleanup"
    /\ obj' = [cleanupAlgorithm(obj) EXCEPT !.ctl = "processImages_start"]
    /\ UNCHANGED << kind, pc, ret, run >>

\* processImages: alg = algorithm; m_images = images; start().  start()
\* does nothing when the thread is running.
ProcessImagesStart ==
    /\ kind = "AlgorithmThread" /\ obj.ctl = "processImages_start"
    /\ obj' = [obj EXCEPT !.alg = obj.created + 1, !.created = @ + 1,
                          !.running = TRUE, !.ctl = "idle"]
    /\ IF obj.running
       THEN UNCHANGED << pc, ret, run >>
       ELSE pc' = "enter" /\ ret' = RunLocals /\ run' = RunSignals(run.number + 1)
    /\ UNCHANGED kind

\* stopProcess: mutex.lock()
StopProcessLock ==
    /\ kind = "AlgorithmThread" /\ obj.ctl = "idle" /\ obj.stops < MaxStops
    /\ obj' = [obj EXCEPT !.locked = TRUE, !.stops = @ + 1, !.ctl = "stopProcess_write"]
    /\ UNCHANGED << kind, pc, ret, run >>

\* stopProcess: m_abort = true; mutex.unlock().  run.stopCalled records
\* that stopProcess has set the flag during the current run.
StopProcessWrite ==
    /\ kind = "AlgorithmThread" /\ obj.ctl = "stopProcess_write"
    /\ obj' = [obj EXCEPT !.m_abort = TRUE, !.locked = FALSE, !.ctl = "idle"]
    /\ run' = [run EXCEPT !.stopCalled = @ \/ obj.running]
    /\ UNCHANGED << kind, pc, ret >>

\* ~AlgorithmThread: mutex.lock()
DestructorLock ==
    /\ kind = "AlgorithmThread" /\ obj.ctl = "idle"
    /\ obj' = [obj EXCEPT !.locked = TRUE, !.ctl = "destructor_write"]
    /\ UNCHANGED << kind, pc, ret, run >>

\* ~AlgorithmThread: m_abort = true; mutex.unlock()
DestructorWrite ==
    /\ kind = "AlgorithmThread" /\ obj.ctl = "destructor_write"
    /\ obj' = [obj EXCEPT !.m_abort = TRUE, !.locked = FALSE, !.ctl = "destructor_cleanup"]
    /\ UNCHANGED << kind, pc, ret, run >>

\* ~AlgorithmThread: cleanupAlgorithm()
DestructorCleanup ==
    /\ kind = "AlgorithmThread" /\ obj.ctl = "destructor_cleanup"
    /\ obj' = [cleanupAlgorithm(obj) EXCEPT !.ctl = "destructor_wait"]
    /\ UNCHANGED << kind, pc, ret, run >>

\* ~AlgorithmThread: wait() returns once run() has returned.
DestructorWait ==
    /\ kind = "AlgorithmThread" /\ obj.ctl = "destructor_wait" /\ ~obj.running
    /\ obj' = [obj EXCEPT !.ctl = "destroyed"]
    /\ UNCHANGED << kind, pc, ret, run >>

\* run() returns.
WorkerReturns(signals) ==
    /\ pc' = "idle"
    /\ obj' = [obj EXCEPT !.running = FALSE]
    /\ run' = [signals EXCEPT !.ended = TRUE]
    /\ UNCHANGED ret

\* run(): alg->initialize(input).  A call through a null pointer or on a
\* deleted algorithm faults or returns anything.
WorkerInitialize ==
    /\ kind = "AlgorithmThread" /\ pc = "enter"
    /\ obj' = [obj EXCEPT !.ub = @ \/ ~AlgUsable(obj)]
    /\ \/ \E ok \in BOOLEAN :
             /\ ret' = [ret EXCEPT !.ok = ok]
             /\ pc' = IF ok THEN "checkInitialize" ELSE "fail"
       \/ ~AlgUsable(obj) /\ pc' = "stuck" /\ UNCHANGED ret
    /\ UNCHANGED << kind, run >>

\* run(): if (m_abort) return; after initialize
WorkerCheckInitialize ==
    /\ kind = "AlgorithmThread" /\ pc = "checkInitialize"
    /\ \E abort \in AbortRead :
          IF abort
          THEN WorkerReturns([run EXCEPT !.aborted = TRUE])
          ELSE pc' = "loop" /\ UNCHANGED << obj, ret, run >>
    /\ UNCHANGED kind

\* run(): ok = alg->increment(finished, status)
WorkerIncrement ==
    /\ kind = "AlgorithmThread" /\ pc = "loop"
    /\ obj' = [obj EXCEPT !.ub = @ \/ ~AlgUsable(obj)]
    /\ \/ \E ok, finished \in BOOLEAN :
             /\ ret.increments + 1 >= MaxThreadIncrements => (finished \/ ~ok)
             /\ ret' = [ok |-> ok, finished |-> finished, increments |-> ret.increments + 1]
             /\ pc' = "checkIncrement"
       \/ ~AlgUsable(obj) /\ pc' = "stuck" /\ UNCHANGED ret
    /\ UNCHANGED << kind, run >>

\* run(): if (m_abort) return; if(ok) emit sendStatus(status); and the test
\* of while(!finished && ok).
WorkerCheckIncrement ==
    /\ kind = "AlgorithmThread" /\ pc = "checkIncrement"
    /\ \E abort \in AbortRead :
          IF abort
          THEN WorkerReturns([run EXCEPT !.aborted = TRUE])
          ELSE /\ pc' = IF ~ret.finished /\ ret.ok THEN "loop"
                        ELSE IF ret.ok THEN "output" ELSE "fail"
               /\ run' = IF ret.ok
                         THEN [run EXCEPT !.sendStatus = @ + 1,
                                          !.statusAfterEnd =
                                              @ \/ run.sendOutput + run.sendFail > 0]
                         ELSE run
               /\ UNCHANGED << obj, ret >>
    /\ UNCHANGED kind

\* run(): ok = alg->output(outputImage, svgOutputPtr)
WorkerOutput ==
    /\ kind = "AlgorithmThread" /\ pc = "output"
    /\ obj' = [obj EXCEPT !.ub = @ \/ ~AlgUsable(obj)]
    /\ \/ \E ok \in BOOLEAN :
             /\ ret' = [ret EXCEPT !.ok = ok]
             /\ pc' = "checkOutput"
       \/ ~AlgUsable(obj) /\ pc' = "stuck" /\ UNCHANGED ret
    /\ UNCHANGED << kind, run >>

\* run(): if (m_abort) { delete the output; return; } after output
WorkerCheckOutput ==
    /\ kind = "AlgorithmThread" /\ pc = "checkOutput"
    /\ \E abort \in AbortRead :
          IF abort
          THEN WorkerReturns([run EXCEPT !.aborted = TRUE])
          ELSE pc' = (IF ret.ok THEN "emitOutput" ELSE "fail") /\ UNCHANGED << obj, ret, run >>
    /\ UNCHANGED kind

\* run(): the AlgorithmResultPair is built and emit sendOutput(pair); return;
WorkerEmitOutput ==
    /\ kind = "AlgorithmThread" /\ pc = "emitOutput"
    /\ WorkerReturns([run EXCEPT !.sendOutput = @ + 1])
    /\ UNCHANGED kind

\* run(): emit sendFail();
WorkerEmitFail ==
    /\ kind = "AlgorithmThread" /\ pc = "fail"
    /\ WorkerReturns([run EXCEPT !.sendFail = @ + 1])
    /\ UNCHANGED kind

NextThread ==
    \/ ProcessImagesLock \/ ProcessImagesWrite \/ ProcessImagesCleanup \/ ProcessImagesStart
    \/ StopProcessLock \/ StopProcessWrite
    \/ DestructorLock \/ DestructorWrite \/ DestructorCleanup \/ DestructorWait
    \/ WorkerInitialize \/ WorkerCheckInitialize
    \/ WorkerIncrement \/ WorkerCheckIncrement
    \/ WorkerOutput \/ WorkerCheckOutput
    \/ WorkerEmitOutput \/ WorkerEmitFail

SpecThread == InitThread /\ [][NextThread]_vars

(***************************************************************************)
(* Properties of the Algorithm contract.                                   *)
(***************************************************************************)

\* C1: failure is sticky.  In a state where failed is set, a call of
\* increment or of output returns failure and leaves every data member as
\* it was (stage, cursor k, iteration count, finished, all arrays), output
\* hands out a null image, the generic SuperpixelFilter step refuses
\* likewise, and failed stays set by every call other than initialize.
C1_FailureIsSticky ==
    [][obj.failed =>
          /\ (ret'.op \in {"increment", "output"} =>
                 obj' = obj /\ ~ret'.ok /\ ret'.image = "null")
          /\ (ret'.op # "initialize" => obj'.failed)
          /\ (kind = "LocalDataFilter" =>
                 \A env \in SLIC_environments(obj.superpixelGenerator) :
                    SuperpixelFilter_increment(obj, env) =
                        [o |-> obj, ok |-> FALSE, diverges |-> FALSE])]_vars

\* A SLIC object that failed in INITIALIZE_OUTPUT has refused an increment.
C1_Witness ==
    /\ kind = "SLIC" /\ obj.failed /\ obj.progress = "INITIALIZE_OUTPUT"
    /\ ret.op = "increment" /\ ~ret.ok /\ ~ret.fSet

\* C2: output succeeds only when increment has reported done since the last
\* initialize, failed is clear and output is enabled; a call of output in
\* any other state returns failure and a null image.
C2_OutputOnlyWhenDone ==
    [][ret'.op = "output" =>
          \/ (run.reportedDone /\ ~obj.failed /\ obj.outputIsEnabled)
          \/ (~ret'.ok /\ ret'.image = "null")]_vars

\* C3: between a successful initialize and the next one, isFinished() is
\* true exactly in the states that follow the increment that reported done.
C3_IsFinishedIffReportedDone ==
    (pc = "ready" /\ run.initialized) => (IsFinished(kind, obj) <=> run.reportedDone)

\* C4: every call of increment on a SLIC or a LocalDataFilter returns.
C4_EveryIncrementReturns ==
    kind \in {"SLIC", "LocalDataFilter"} => pc = "ready"

\* A LocalDataFilter whose scores are all equal has entered
\* constructHistogram with an infinite inverseBinWidth, and the call has not
\* returned.
C4_HistogramWitness ==
    /\ kind = "LocalDataFilter" /\ pc = "stuck"
    /\ obj.progress = "CONSTRUCT_HISTOGRAM" /\ obj.inverseBinWidth = "inf"

\* The data members that initialize is to reset: all but the output switch
\* (set by disableOutput, a configuration) and the output image, which the
\* next run replaces before it is read.
ResetState(o) == [o EXCEPT !.outputIsEnabled = TRUE, !.outputImage = "null"]

\* C5: initialize resets the state fully.  After every call of initialize
\* that returns success the stage, the cursor, the iteration count,
\* finished, failed and the working data are those of a freshly constructed
\* instance after its first successful initialize.
C5_InitializeResets ==
    [][(ret'.op = "initialize" /\ ret'.ok) =>
          ResetState(obj') =
              ResetState(Initialize(kind,
                             Constructed(kind, IF kind = "LocalDataFilter"
                                               THEN obj.basis ELSE "SIZE"),
                             TRUE))]_vars

\* C6: initialize recovers from failure.  When failed is set and initialize
\* is called with images of agreeing dimensions, the call returns success
\* and clears failed.
C6_InitializeRecovers ==
    [][(obj.failed /\ ret'.op = "initialize" /\ obj' = Initialize(kind, obj, TRUE)) =>
          (ret'.ok /\ ~obj'.failed)]_vars

(***************************************************************************)
(* Properties of SLIC.                                                     *)
(***************************************************************************)
StageIndex(progress) == CHOOSE i \in 1 .. Len(SLICProgress) : SLICProgress[i] = progress

\* Whether the cursor of the stage of s has covered the stage's range.
RangeCovered(s) ==
    IF s.progress = "SORT_PIXELS_AS_SUPERPIXELS"
    THEN s.k = -1
    ELSE s.k = SLIC_getLoopLimit(s)

\* C7: the stage of a SLIC object changes only by initialize (to START) or
\* to the next stage of the declared order, with two exceptions: the step
\* from K_MEANS_ASSESS_ITERATION back to K_MEANS_LABEL_PIXELS, and the step
\* from CREATE_SUPERPIXEL_OBJECTS to END, taken exactly when output is
\* disabled.  A stage is left only when its cursor has covered its range.
C7_StageOrder ==
    [][(kind = "SLIC" /\ obj'.progress # obj.progress) =>
          IF ret'.op = "initialize"
          THEN obj'.progress = "START"
          ELSE /\ RangeCovered(obj)
               /\ CASE obj.progress = "K_MEANS_ASSESS_ITERATION" ->
                          obj'.progress \in {"K_MEANS_LABEL_PIXELS",
                                              "FIND_CONNECTED_COMPONENTS"}
                    [] obj.progress = "CREATE_SUPERPIXEL_OBJECTS" ->
                          obj'.progress = IF obj.outputIsEnabled
                                          THEN "INITIALIZE_OUTPUT" ELSE "END"
                    [] OTHER ->
                          StageIndex(obj'.progress) = StageIndex(obj.progress) + 1]_vars

\* A finished SLIC run that went back to K_MEANS_LABEL_PIXELS and through
\* the output stages.
C7_Witness ==
    /\ kind = "SLIC" /\ obj.finished /\ obj.iterationCount >= 2
    /\ obj.outputImage = "valid"

\* The set of the elements of a sequence.
Range(seq) == {seq[i] : i \in 1 .. Len(seq)}

PixelsLabelled(labels, l) == {p \in Pixels : labels[p] = l}

\* The pixels of region that a path of 4-adjacent pixels of region joins
\* to a pixel of seen.
RECURSIVE FloodFill(_, _)
FloodFill(region, seen) ==
    LET next == seen \cup {q \in region : \E p \in seen : q \in Range(fourNeighbours(p))}
    IN  IF next = seen THEN seen ELSE FloodFill(region, next)

IsConnected(region) ==
    region = {} \/ FloodFill(region, {CHOOSE p \in region : TRUE}) = region

\* The labels of a SLIC object that has reported done and still holds them.
DoneLabels == kind = "SLIC" /\ pc = "ready" /\ obj.finished /\ obj.clusterLabels # NULL

\* C8: when SLIC has reported done, the pixels of every label form one
\* 4-connected region.
C8_SuperpixelsConnected ==
    DoneLabels => \A l \in Clusters : IsConnected(PixelsLabelled(obj.clusterLabels, l))

\* A finished run in which k-means left more connected components than
\* there are labels in the result: a component was discarded and its
\* pixels were reassigned.
C8_Witness ==
    /\ DoneLabels
    /\ obj.nConnectedComponents > Cardinality(Range([p \in 1 .. pixelCount |->
                                                       obj.clusterLabels[p - 1]]))

RECURSIVE PixelCountSum(_, _)
PixelCountSum(superpixels, n) ==
    IF n = 0 THEN 0 ELSE superpixels[n - 1].nPixels + PixelCountSum(superpixels, n - 1)

PixelSet(superpixel) == {superpixel.allPx[i] : i \in DOMAIN superpixel.allPx}

\* Whether sp is a partition of the image: the label array and the
\* superpixel array are allocated, every label is in 0 .. nSuperpixels-1,
\* pixel p is in the pixel set of superpixel l exactly when its label is l,
\* every pixel set has as many pixels as its superpixel counts, and the
\* counts sum to the pixel count.
SegmentationIsPartition(sp) ==
    /\ sp.labels # NULL
    /\ sp.superpixels # NULL
    /\ LET labels == 0 .. (sp.nSuperpixels - 1)
       IN  /\ \A p \in Pixels : sp.labels[p] \in labels
           /\ \A l \in labels : \A p \in Pixels :
                 (p \in PixelSet(sp.superpixels[l])) <=> (sp.labels[p] = l)
           /\ \A l \in labels :
                 /\ sp.superpixels[l].nPixels = Cardinality(PixelSet(sp.superpixels[l]))
                 /\ sp.superpixels[l].nPixels = ArrLen(sp.superpixels[l].allPx)
           /\ PixelCountSum(sp.superpixels, sp.nSuperpixels) = pixelCount

\* C9: every Superpixellation that a successful call of
\* outputSuperpixellation hands out is a partition of the image.
C9_SegmentationIsPartition ==
    (ret.op = "outputSuperpixellation" /\ ret.ok) =>
        SegmentationIsPartition(ret.superpixellation)

\* C9, for the call that finds the generator still holding its labels and
\* superpixels (the first call after done): the Superpixellation handed out
\* is a partition of the image.
C9_FirstSegmentationIsPartition ==
    [][(ret'.op = "outputSuperpixellation" /\ ret'.ok /\ obj.clusterLabels # NULL) =>
          SegmentationIsPartition(ret'.superpixellation)]_vars

\* A Superpixellation was handed out that has its arrays and in which no
\* superpixel is empty.
C9_FirstWitness ==
    /\ ret.op = "outputSuperpixellation" /\ ret.ok
    /\ ret.superpixellation.superpixels # NULL
    /\ \A l \in Clusters : ret.superpixellation.superpixels[l].nPixels > 0

ComponentPixels(s, c) == {p \in Pixels : s.connectedComponentLabels[p] = c}

\* The connected components of the pixels of cluster l.
ComponentsOf(s, l) ==
    {c \in 0 .. (s.nConnectedComponents - 1) :
        \E p \in ComponentPixels(s, c) : s.clusterLabels[p] = l}

\* C10: when CLASSIFY_CONNECTED_COMPONENTS has covered all clusters, every
\* cluster that has pixels has exactly one component marked kept, and no
\* component of the cluster has more pixels than the kept one.
C10_LargestComponentKept ==
    (/\ kind = "SLIC" /\ pc = "ready" /\ ~obj.failed
     /\ obj.progress = "CLASSIFY_CONNECTED_COMPONENTS" /\ obj.k = kParam) =>
        \A l \in Clusters :
            LET components == ComponentsOf(obj, l)
                kept == {c \in components : obj.connectedComponentClassifications[c] = 1}
            IN  components # {} =>
                   /\ Cardinality(kept) = 1
                   /\ \A c \in kept : \A d \in components :
                         Cardinality(ComponentPixels(obj, c)) >=
                             Cardinality(ComponentPixels(obj, d))

\* C11: when an increment leaves K_MEANS_ASSESS_ITERATION, it goes on to
\* FIND_CONNECTED_COMPONENTS exactly when iterationCount has reached
\* SLIC_MAX_KMEANS_ITERATIONS - 1 or at least two iterations have completed
\* (iterationCount >= 2) and the residual has converged, whatever the
\* outcome of the convergence test is; otherwise it starts another
\* iteration and counts it.  The rounds run when the loop is left number at
\* least 2 and at most SLIC_MAX_KMEANS_ITERATIONS.
C11_KMeansLoopExit ==
    [][(/\ kind = "SLIC" /\ ret'.op = "increment"
        /\ obj.progress = "K_MEANS_ASSESS_ITERATION"
        /\ obj'.progress # obj.progress) =>
          /\ \A converged \in BOOLEAN :
                LET after == SLIC_updateKAndProgress(obj, converged).s
                IN  IF \/ obj.iterationCount = SLIC_MAX_KMEANS_ITERATIONS - 1
                       \/ (obj.iterationCount >= 2 /\ converged)
                    THEN /\ after.progress = "FIND_CONNECTED_COMPONENTS"
                         /\ after.iterationCount = obj.iterationCount
                    ELSE /\ after.progress = "K_MEANS_LABEL_PIXELS"
                         /\ after.iterationCount = obj.iterationCount + 1
          /\ obj'.progress \in {"FIND_CONNECTED_COMPONENTS", "K_MEANS_LABEL_PIXELS"}
          /\ (obj'.progress = "FIND_CONNECTED_COMPONENTS" =>
                 /\ obj'.iterationCount = obj.iterationCount
                 /\ obj.iterationCount + 1 \in 2 .. SLIC_MAX_KMEANS_ITERATIONS)
          /\ (obj'.progress = "K_MEANS_LABEL_PIXELS" =>
                 /\ obj'.iterationCount = obj.iterationCount + 1
                 /\ obj'.iterationCount < SLIC_MAX_KMEANS_ITERATIONS)]_vars

\* The loop was left on convergence, before the maximum iteration count.
C11_Witness ==
    /\ kind = "SLIC" /\ obj.progress = "FIND_CONNECTED_COMPONENTS"
    /\ obj.iterationCount >= 2
    /\ obj.iterationCount < SLIC_MAX_KMEANS_ITERATIONS - 1

(***************************************************************************)
(* Properties of SuperpixelFilter and LocalDataFilter.                     *)
(***************************************************************************)

\* C12: in every call of increment on a LocalDataFilter, a generator that
\* has finished is not stepped again (it changes only by handing out its
\* Superpixellation); once the Superpixellation has been retrieved it is
\* not retrieved again in the run; the call that retrieves it finds the
\* generator finished, takes a Superpixellation that partitions the image,
\* allocates both selection arrays with every entry rejected, stays in
\* GENERATE_SUPERPIXELS and does not report done; no later stage is entered
\* before the retrieval; and done is reported only in stage END.
C12_FilterDrivesGenerator ==
    [][(kind = "LocalDataFilter" /\ ret'.op = "increment") =>
          LET generator == obj.superpixelGenerator
          IN  /\ (generator.finished =>
                     obj'.superpixelGenerator \in
                         {generator, SLIC_outputSuperpixellation(generator).s})
              /\ (obj.isSuperpixelGenerationFinished =>
                     /\ obj'.isSuperpixelGenerationFinished
                     /\ obj'.superpixellation = obj.superpixellation
                     /\ obj'.superpixelGenerator = generator)
              /\ ((~obj.isSuperpixelGenerationFinished
                      /\ obj'.isSuperpixelGenerationFinished) =>
                     /\ generator.finished
                     /\ obj'.superpixellation = Superpixellation(generator)
                     /\ SegmentationIsPartition(obj'.superpixellation)
                     /\ obj'.selectedSuperpixels = Arr(kParam, 0)
                     /\ obj'.selectedPixels = Arr(pixelCount, 0)
                     /\ obj'.progress = "GENERATE_SUPERPIXELS"
                     /\ ~ret'.f)
              /\ (~obj'.isSuperpixelGenerationFinished =>
                     obj'.progress \in {"START", "GENERATE_SUPERPIXELS"})
              /\ ((ret'.fSet /\ ret'.f) => obj'.progress = "END")]_vars

\* The call that retrieved the Superpixellation has returned.
C12_Witness ==
    /\ kind = "LocalDataFilter" /\ ret.op = "increment" /\ ret.ok /\ ~ret.f
    /\ obj.isSuperpixelGenerationFinished
    /\ obj.progress = "GENERATE_SUPERPIXELS"
    /\ obj.superpixelGenerator.finished
    /\ obj.superpixellation.labels # NULL

\* A state in which outputFilteredSuperpixellation succeeds and the filter
\* holds the selection arrays it hands out.
CanOutputFilteredSuperpixellation ==
    /\ kind = "LocalDataFilter"
    /\ SuperpixelFilter_outputFilteredSuperpixellation(obj).ok
    /\ obj.selectedPixels # NULL /\ obj.selectedSuperpixels # NULL
    /\ obj.superpixellation.labels # NULL

\* C13: in every state in which outputFilteredSuperpixellation succeeds on
\* the selection arrays the filter holds, the flag of every pixel equals
\* the flag of the superpixel that the pixel's label names.
C13_PixelFlagIsSuperpixelFlag ==
    CanOutputFilteredSuperpixellation =>
        \A p \in Pixels :
            /\ obj.superpixellation.labels[p] \in Clusters
            /\ obj.selectedPixels[p]
                 = obj.selectedSuperpixels[obj.superpixellation.labels[p]]

\* The output can succeed on a segmentation with an empty superpixel in
\* which some pixel is selected.
C13_Witness ==
    /\ CanOutputFilteredSuperpixellation
    /\ \E c \in Clusters : obj.superpixellation.superpixels[c].nPixels = 0
    /\ \E p \in Pixels : obj.selectedPixels[p] = 1

(***************************************************************************)
(* Properties of the stages of SLIC that follow k-means.                   *)
(***************************************************************************)

\* The sorting stage of s has handled every pixel and s still holds the
\* arrays of the sort.
SortFinished(s) ==
    /\ s.sortedPixels # NULL /\ s.clusterLabels # NULL
    /\ s.pixelSortingOffsets # NULL /\ s.nPixelsPerCluster # NULL
    /\ \/ (s.progress = "SORT_PIXELS_AS_SUPERPIXELS" /\ s.k < 0)
       \/ StageIndex(s.progress) > StageIndex("SORT_PIXELS_AS_SUPERPIXELS")

\* The positions of the slice of cluster c in sortedPixels.
Slice(s, c) ==
    { i \in Pixels : /\ s.pixelSortingOffsets[c] <= i
                     /\ i < s.pixelSortingOffsets[c] + s.nPixelsPerCluster[c] }

\* C14: once SORT_PIXELS_AS_SUPERPIXELS has handled every pixel, the slice
\* of sortedPixels that starts at pixelSortingOffsets[c] and has length
\* nPixelsPerCluster[c] holds exactly the pixels labelled c, each once and
\* in ascending order; the slice of cluster 0 starts at 0, every slice
\* starts where the slice before it ends, and the last one ends at the
\* end of the array.
C14_CountingSort ==
    (kind = "SLIC" /\ SortFinished(obj)) =>
        /\ obj.pixelSortingOffsets[0] = 0
        /\ \A c \in Clusters :
              /\ obj.nPixelsPerCluster[c] >= 0
              /\ Cardinality(Slice(obj, c)) = obj.nPixelsPerCluster[c]
              /\ { obj.sortedPixels[i] : i \in Slice(obj, c) }
                   = { p \in Pixels : obj.clusterLabels[p] = c }
              /\ \A i, j \in Slice(obj, c) :
                    i < j => obj.sortedPixels[i] < obj.sortedPixels[j]
              /\ obj.pixelSortingOffsets[c] + obj.nPixelsPerCluster[c]
                   = IF c = kParam - 1 THEN pixelCount
                     ELSE obj.pixelSortingOffsets[c + 1]

\* The sort has just ended, it took more than one call, and both clusters
\* have pixels.
C14_Witness ==
    /\ kind = "SLIC" /\ SortFinished(obj) /\ obj.progress = "SORT_PIXELS_AS_SUPERPIXELS"
    /\ SLIC_PIXEL_GRANULARITY < pixelCount
    /\ \A c \in Clusters : obj.nPixelsPerCluster[c] > 0
    /\ \E p \in Pixels : p > 0 /\ obj.clusterLabels[p] < obj.clusterLabels[p - 1]

(***************************************************************************)
(* Properties of Superpixel.                                               *)
(***************************************************************************)

\* The boundary and the interior sub-array of a Superpixel, as
\* Superpixel::boundaryPixels and Superpixel::interiorPixels hand them out.
BoundaryPixels(sp) == { sp.allPx[i] : i \in 0 .. (sp.nBoundaryPixels - 1) }
InteriorPixels(sp) ==
    { sp.allPx[i] : i \in sp.nBoundaryPixels .. (sp.nPixels - 1) }

\* The pixel has a neighbour on each of its four sides inside the image
\* and all four carry the label.
FourNeighboursCarry(img, labels, px, label) ==
    LET x == px % img.width
        y == px \div img.width
    IN  /\ x >= 1 /\ x + 1 <= img.width - 1
        /\ y >= 1 /\ y + 1 <= img.height - 1
        /\ labels[px - 1] = label /\ labels[px + 1] = label
        /\ labels[px - img.width] = label /\ labels[px + img.width] = label

\* C15: for every constructed Superpixel the interior and the boundary
\* pixel lists are disjoint, hold each pixel once, and together are the
\* pixels that carry the superpixel's label; nInteriorPixels +
\* nBoundaryPixels = nPixels; and a pixel of the superpixel is interior
\* exactly when its four 4-neighbours all exist inside the image and carry
\* the superpixel's label, boundary otherwise.
C15_InteriorBoundaryPartition ==
    kind = "Superpixel" =>
        \A c \in Clusters :
            LET sp == obj.superpixels[c]
                own == { px \in DOMAIN obj.labels : obj.labels[px] = c }
            IN  sp # SuperpixelUninit =>
                  /\ sp.id = c
                  /\ sp.nPixels = Cardinality(own)
                  /\ ArrLen(sp.allPx) = sp.nPixels
                  /\ sp.nBoundaryPixels >= 0 /\ sp.nInteriorPixels >= 0
                  /\ sp.nInteriorPixels + sp.nBoundaryPixels = sp.nPixels
                  /\ Cardinality(BoundaryPixels(sp)) = sp.nBoundaryPixels
                  /\ Cardinality(InteriorPixels(sp)) = sp.nInteriorPixels
                  /\ BoundaryPixels(sp) \cap InteriorPixels(sp) = {}
                  /\ BoundaryPixels(sp) \cup InteriorPixels(sp) = own
                  /\ \A px \in own :
                        px \in InteriorPixels(sp)
                            <=> FourNeighboursCarry(obj.img, obj.labels, px, c)

\* A constructed Superpixel with an interior pixel, with a pixel that has
\* four neighbours of which one carries another label, and with a pixel at
\* the edge of the image.
C15_Witness ==
    /\ kind = "Superpixel"
    /\ \E c \in Clusters :
          LET sp == obj.superpixels[c]
          IN  /\ sp # SuperpixelUninit
              /\ sp.nInteriorPixels > 0
              /\ \E px \in BoundaryPixels(sp) :
                    /\ Len(fourNeighboursOf(obj.img, px)) = 4
              /\ \E px \in BoundaryPixels(sp) :
                    /\ Len(fourNeighboursOf(obj.img, px)) < 4

(***************************************************************************)
(* Properties of the connected components found by SLIC.                   *)
(***************************************************************************)

\* FIND_CONNECTED_COMPONENTS has handled every pixel.
ComponentsFound ==
    /\ kind = "SLIC" /\ pc = "ready" /\ ~obj.failed
    /\ obj.progress = "FIND_CONNECTED_COMPONENTS" /\ obj.k = pixelCount

\* The pixels that a path of 4-adjacent pixels with the cluster label of p
\* joins to p.
ConnectedTo(s, p) ==
    FloodFill(PixelsLabelled(s.clusterLabels, s.clusterLabels[p]), {p})

\* The element of the heap that the handle names.
HeapElement(h, handle) == h.a[h.indexToA[handle]]

\* C16: when FIND_CONNECTED_COMPONENTS has handled every pixel, every pixel
\* has a component id in 0 .. nConnectedComponents-1, every id is in use,
\* two pixels have the same id exactly when a path of 4-adjacent pixels
\* with the same cluster label joins them, and the heap holds for each
\* component one element with the component's id, its cluster label and
\* its number of pixels.
C16_ComponentsLabelled ==
    ComponentsFound =>
        LET components == 0 .. (obj.nConnectedComponents - 1)
            heap == obj.connectedComponentHeap
        IN  /\ \A p \in Pixels : obj.connectedComponentLabels[p] \in components
            /\ \A c \in components : ComponentPixels(obj, c) # {}
            /\ \A p, q \in Pixels :
                  (obj.connectedComponentLabels[p] = obj.connectedComponentLabels[q])
                      <=> q \in ConnectedTo(obj, p)
            /\ heap.n = obj.nConnectedComponents
            /\ \A c \in components :
                  /\ heap.indexToA[c] \in 0 .. (heap.n - 1)
                  /\ HeapElement(heap, c).component = c
                  /\ HeapElement(heap, c).size = Cardinality(ComponentPixels(obj, c))
                  /\ \A p \in ComponentPixels(obj, c) :
                        HeapElement(heap, c).cluster = obj.clusterLabels[p]

\* The pixels were handled in more than one call, there are several
\* components, and one of them has more pixels than a call handles.
C16_Witness ==
    /\ ComponentsFound
    /\ obj.nConnectedComponents > 1
    /\ \E c \in 0 .. (obj.nConnectedComponents - 1) :
          Cardinality(ComponentPixels(obj, c)) > SLIC_PIXEL_GRANULARITY

\* Whether the component of pixel p of s was marked kept.
Kept(s, p) == s.connectedComponentClassifications[s.connectedComponentLabels[p]] = 1

\* The length of the shortest path of 4-adjacent pixels from p to q.
GridDistance(p, q) ==
    LET dx == kToX(inputImage, p) - kToX(inputImage, q)
        dy == kToY(inputImage, p) - kToY(inputImage, q)
    IN  (IF dx < 0 THEN -dx ELSE dx) + (IF dy < 0 THEN -dy ELSE dy)

\* C17: every call of increment that returns success in
\* REASSIGN_CONNECTED_COMPONENTS gives each pixel it handles that lies in a
\* discarded component the label of a pixel of a kept component than which
\* no pixel of a kept component is nearer in 4-connected grid distance,
\* and leaves the label of every other pixel, so of every pixel of a kept
\* component, as it was.
C17_ReassignToNearest ==
    [][(/\ kind = "SLIC" /\ ret'.op = "increment" /\ ret'.ok
        /\ obj'.progress = "REASSIGN_CONNECTED_COMPONENTS") =>
          LET first == IF obj.progress = obj'.progress THEN obj.k ELSE 0
          IN  \A p \in Pixels :
                IF ~Kept(obj', p) /\ first <= p /\ p < obj'.k
                THEN \E q \in Pixels :
                        /\ Kept(obj', q)
                        /\ obj'.clusterLabels[p] = obj.clusterLabels[q]
                        /\ \A r \in Pixels :
                              Kept(obj', r) => GridDistance(p, q) <= GridDistance(p, r)
                ELSE obj'.clusterLabels[p] = obj.clusterLabels[p]]_vars

\* The reassignment has handled every pixel, a pixel of a discarded
\* component has got a label that a farther pixel of a kept component
\* does not carry, and a pixel of a discarded component has no pixel of a
\* kept component next to it.
C17_Witness ==
    /\ kind = "SLIC" /\ ret.op = "increment" /\ ret.ok
    /\ obj.progress = "REASSIGN_CONNECTED_COMPONENTS" /\ obj.k = pixelCount
    /\ \E p, q, r \in Pixels :
          /\ ~Kept(obj, p) /\ Kept(obj, q) /\ Kept(obj, r)
          /\ GridDistance(p, q) < GridDistance(p, r)
          /\ obj.clusterLabels[p] = obj.clusterLabels[q]
          /\ obj.clusterLabels[p] # obj.clusterLabels[r]
    /\ \E p \in Pixels :
          /\ ~Kept(obj, p)
          /\ \A r \in Pixels : Kept(obj, r) => GridDistance(p, r) >= 2

(***************************************************************************)
(* Properties of the threshold of LocalDataFilter.                         *)
(***************************************************************************)

\* The number of superpixels in the bins below the split, and the sum of
\* their bin indices.
WeightBelow(o, split) == histogramTotal(o.histogram, split - 1)
SumBelow(o, split) == histogramSum(o.histogram, split - 1)

\* The between-class variance weightBelow * weightAbove * (meanAbove -
\* meanBelow)^2 of a split is VarianceNum / VarianceDen; it is 0 when a
\* class is empty.
VarianceDen(o, split) ==
    LET weightBelow == WeightBelow(o, split)
        weightAbove == o.superpixellation.nSuperpixels - weightBelow
    IN  IF weightBelow * weightAbove = 0 THEN 1 ELSE weightBelow * weightAbove

VarianceNum(o, split) ==
    LET weightBelow == WeightBelow(o, split)
        weightAbove == o.superpixellation.nSuperpixels - weightBelow
        sumBelow == SumBelow(o, split)
        sumAbove == histogramSum(o.histogram, o.nHistogramBins - 1) - sumBelow
        diff == sumAbove * weightBelow - sumBelow * weightAbove
    IN  IF weightBelow * weightAbove = 0 THEN 0 ELSE diff * diff

\* Split a has a strictly larger between-class variance than split b.
LargerVariance(o, a, b) ==
    VarianceNum(o, a) * VarianceDen(o, b) > VarianceNum(o, b) * VarianceDen(o, a)

\* C18: for a histogram whose bins sum to the number of superpixels, the
\* bin that chooseOtsuThreshold chooses is a bin of the histogram, and no
\* split point 1 .. nHistogramBins-1 has a strictly larger between-class
\* variance than the chosen one.
C18_OtsuMaximizes ==
    (kind = "Otsu" /\ obj.otsuThreshold # UNINIT) =>
        /\ obj.otsuThreshold \in 0 .. (obj.nHistogramBins - 1)
        /\ \A split \in 1 .. (obj.nHistogramBins - 1) :
              ~LargerVariance(obj, split, obj.otsuThreshold)

\* The chosen split has a strictly larger variance than an earlier and a
\* later split, both of which separate two non-empty classes.
C18_Witness ==
    /\ kind = "Otsu" /\ obj.otsuThreshold # UNINIT
    /\ \E a, b \in 1 .. (obj.nHistogramBins - 1) :
          /\ a < obj.otsuThreshold /\ obj.otsuThreshold < b
          /\ VarianceNum(obj, a) > 0 /\ VarianceNum(obj, b) > 0
          /\ LargerVariance(obj, obj.otsuThreshold, a)
          /\ LargerVariance(obj, obj.otsuThreshold, b)

\* C19: when all scores are equal, so that maxScore = minScore and every
\* superpixel falls into one bin, the histogram stage divides by a bin
\* width other than zero and the call that constructs the histogram
\* returns.
C19_EqualScoresComplete ==
    (/\ kind = "LocalDataFilter" /\ obj.progress = "CONSTRUCT_HISTOGRAM"
     /\ obj.maxScore = obj.minScore) =>
        (obj.inverseBinWidth = "finite" /\ pc = "ready")

\* A filter on the size basis whose superpixels all have the same size has
\* divided by maxScore - minScore = 0 and has not returned from
\* constructHistogram.
C19_Witness ==
    /\ kind = "LocalDataFilter" /\ obj.basis = "SIZE"
    /\ obj.progress = "CONSTRUCT_HISTOGRAM"
    /\ obj.maxScore = obj.minScore /\ obj.inverseBinWidth = "inf"
    /\ pc = "stuck"

\* FILTER_SUPERPIXELS has handled every superpixel and the filter holds
\* the selection arrays.
FilterDone ==
    /\ kind = "LocalDataFilter" /\ pc = "ready"
    /\ obj.selectedSuperpixels # NULL /\ obj.selectedPixels # NULL
    /\ obj.superpixellation.labels # NULL
    /\ \/ /\ obj.progress = "FILTER_SUPERPIXELS"
          /\ obj.k = obj.superpixellation.nSuperpixels
       \/ obj.progress \in {"INITIALIZE_OUTPUT", "FILL_OUTPUT", "FINALIZE_OUTPUT", "END"}

\* The sign of superpixelScores[c] - otsuThreshold, where otsuThreshold is
\* bin / inverseBinWidth + minScore.
ScoreMinusThreshold(o, c) ==
    (o.superpixelScores[c] - o.minScore) * (o.nHistogramBins - 1)
        - o.otsuThreshold * (o.maxScore - o.minScore)

\* Every pixel carries the decision of the superpixel it belongs to, so the
\* decision of a superpixel is on all of its pixels and on no other pixel.
DecisionsOnPixels(o) ==
    /\ \A c \in 0 .. (o.superpixellation.nSuperpixels - 1) :
          /\ o.selectedSuperpixels[c] \in {0, 1}
          /\ PixelSet(o.superpixellation.superpixels[c])
               = PixelsLabelled(o.superpixellation.labels, c)
    /\ \A p \in Pixels :
          o.selectedPixels[p] = o.selectedSuperpixels[o.superpixellation.labels[p]]

C21_RejectsMismatchOnly ==
    (kind = "LocalDataFilter" /\ pc = "ready") =>
        \A dimensionsAgree \in BOOLEAN :
            (dimensionsAgree \/ obj.basis = "EXTERNAL") =>
                LET after == LocalDataFilter_initialize(obj, dimensionsAgree)
                IN  /\ after.failed <=> ~dimensionsAgree
                    /\ ~dimensionsAgree =>
                          /\ after.superpixelGenerator = obj.superpixelGenerator
                          /\ after.input = "null"
                          /\ after.selectionMap = "null"

\* A filter on the size basis, which takes one image and no selection map,
\* has returned failure from initialize.
C21_Witness ==
    /\ kind = "LocalDataFilter" /\ obj.basis = "SIZE"
    /\ ret.op = "initialize" /\ ~ret.ok

(***************************************************************************)
(* Properties of the quanta of work of SLIC.                               *)
(***************************************************************************)

\* The number of clusters or pixels a call may handle in the stage.
Granularity(progress) ==
    IF SLIC_inc(progress) < 0 THEN 0 - SLIC_inc(progress) ELSE SLIC_inc(progress)

\* The cursor with which the call that led from s to t began its work in
\* the stage of t.
FirstCursor(s, t) ==
    IF t.progress = s.progress THEN s.k
    ELSE IF t.progress = "SORT_PIXELS_AS_SUPERPIXELS" THEN pixelCount - 1 ELSE 0

\* The number of clusters or pixels handled by the call that led from s
\* to t.
Handled(s, t) ==
    IF t.progress = "SORT_PIXELS_AS_SUPERPIXELS"
    THEN FirstCursor(s, t) - t.k
    ELSE t.k - FirstCursor(s, t)

\* C22: every call of increment on a SLIC object that returns success
\* handles at most SLIC_CLUSTER_GRANULARITY clusters in a cluster stage and
\* at most SLIC_PIXEL_GRANULARITY pixels in a pixel stage, the descending
\* sort included; the cursor stays within the range of the stage; and in a
\* stage without a loop the call takes exactly one step, to that stage.
C22_OneQuantumPerCall ==
    [][(kind = "SLIC" /\ ret'.op = "increment" /\ ret'.ok) =>
          /\ Handled(obj, obj') >= 0
          /\ Handled(obj, obj') <= Granularity(obj'.progress)
          /\ IF obj'.progress = "SORT_PIXELS_AS_SUPERPIXELS"
             THEN obj'.k >= -1 /\ obj'.k <= pixelCount - 1
             ELSE obj'.k >= 0 /\ obj'.k <= SLIC_getLoopLimit(obj')
          /\ (Granularity(obj'.progress) = 0 =>
                 /\ obj'.progress # obj.progress
                 /\ StageIndex(obj'.progress) = StageIndex(obj.progress) + 1
                    \/ obj.progress = "CREATE_SUPERPIXEL_OBJECTS")]_vars

\* The first call in SORT_PIXELS_AS_SUPERPIXELS has returned and has placed
\* SLIC_PIXEL_GRANULARITY + 1 pixels in sortedPixels.
C22_Witness ==
    /\ kind = "SLIC" /\ ret.op = "increment" /\ ret.ok
    /\ obj.progress = "SORT_PIXELS_AS_SUPERPIXELS"
    /\ obj.k = pixelCount - 1 - (SLIC_PIXEL_GRANULARITY + 1)
    /\ Cardinality({i \in Pixels : obj.sortedPixels[i] # UNINIT})
         = SLIC_PIXEL_GRANULARITY + 1

\* The same statement with the descending sort left out: it holds in all
\* other stages.
QuantumInAscendingStages ==
    [][(/\ kind = "SLIC" /\ ret'.op = "increment" /\ ret'.ok
        /\ obj'.progress # "SORT_PIXELS_AS_SUPERPIXELS") =>
          /\ Handled(obj, obj') >= 0
          /\ Handled(obj, obj') <= Granularity(obj'.progress)
          /\ obj'.k >= 0 /\ obj'.k <= SLIC_getLoopLimit(obj')]_vars

\* The SLIC object whose superpixel array the caller's object owns.
GeneratorOf(c, o) == IF c = "LocalDataFilter" THEN o.superpixelGenerator ELSE o

\* C23: between any two calls of increment on a SLIC or a LocalDataFilter
\* object, in any stage, the cleanup run by destroying or re-initialising the
\* object releases no uninitialised entry of the superpixel array.
C23_CleanupReleasesInitialized ==
    (kind \in {"SLIC", "LocalDataFilter"} /\ pc = "ready") =>
        ~SLIC_cleanupReadsUninitialized(GeneratorOf(kind, obj))

\* An increment has returned in the middle of the stage that creates the
\* superpixels: the first one exists, the last entry of the array is not
\* assigned yet.
C23_Witness ==
    /\ kind = "SLIC" /\ pc = "ready"
    /\ ret.op = "increment" /\ ret.ok
    /\ obj.progress = "CREATE_SUPERPIXEL_OBJECTS"
    /\ obj.k > 0 /\ obj.k < kParam
    /\ obj.superpixels[0].id = 0
    /\ obj.superpixels[kParam - 1].id = UNINIT

(***************************************************************************)
(* Properties of ownership.                                                *)
(***************************************************************************)
\* Every instance has been destroyed and no caller still holds the image.
AllDiscarded ==
    /\ \A n \in Instances : obj.inst[n].life # "live"
    /\ obj.callerImg = 0

\* C24: over any sequence of shallow transfers, hand-offs of the image and
\* destructions, the superpixel array, the label array and the image are
\* each released at most once, and exactly once when every instance has been
\* destroyed and every caller responsible for the image has released it.
C24_ReleasedExactlyOnce ==
    kind = "Superpixellation" =>
        /\ obj.released.superpixels <= 1
        /\ obj.released.superpixelLabels <= 1
        /\ obj.released.img <= 1
        /\ AllDiscarded =>
              /\ obj.released.superpixels = 1
              /\ obj.released.superpixelLabels = 1
              /\ obj.released.img = 1

\* The arrays went from the first instance to a second by a shallow
\* transfer, the image was handed to a caller by the first instance
\* afterwards, and everything has been discarded.
C24_Witness ==
    /\ kind = "Superpixellation" /\ AllDiscarded
    /\ obj.inst[1].life = "destroyed" /\ obj.inst[1].shareAll /\ obj.inst[1].shareImage
    /\ obj.inst[2].life = "destroyed" /\ ~obj.inst[2].shareAll /\ ~obj.inst[2].shareImage
    /\ obj.inst[3].life = "none"
    /\ obj.released.superpixels = 1

\* The part of C24 about the two arrays, and the step of a shallow transfer:
\* the source is left with shareAll set and the new instance with the flags
\* the source had.
ArraysReleasedOnce ==
    kind = "Superpixellation" =>
        /\ obj.released.superpixels <= 1
        /\ obj.released.superpixelLabels <= 1
        /\ Cardinality({n \in Instances :
                           obj.inst[n].life = "live" /\ ~obj.inst[n].shareAll})
             = 1 - obj.released.superpixels
        /\ AllDiscarded => obj.released.superpixels = 1 /\ obj.released.superpixelLabels = 1

C26_BinsPerSuperpixel ==
    (kind = "HistogramBins" /\ ret.op = "constructHistogram") =>
        /\ obj.nHistogramBins >= LOCALDATAFILTER_MIN_HISTOGRAM_BINS
        /\ obj.nHistogramBins <= LOCALDATAFILTER_MAX_HISTOGRAM_BINS
        /\ \/ obj.nHistogramBins = LOCALDATAFILTER_MAX_HISTOGRAM_BINS
           \/ obj.nHistogramBins >=
                 LOCALDATAFILTER_MIN_HISTOGRAM_BINS_PER_SUPERPIXEL
                    * obj.superpixellation.nSuperpixels

\* Sixty superpixels were given twenty bins.
C26_Witness ==
    /\ kind = "HistogramBins" /\ ret.op = "constructHistogram"
    /\ obj.superpixellation.nSuperpixels = 60
    /\ obj.nHistogramBins = 20

\* The bounds of C26, and what the number of bins is between them: one bin
\* for every LOCALDATAFILTER_MIN_HISTOGRAM_BINS_PER_SUPERPIXEL superpixels.
BinsWithinBounds ==
    (kind = "HistogramBins" /\ ret.op = "constructHistogram") =>
        /\ obj.nHistogramBins >= LOCALDATAFILTER_MIN_HISTOGRAM_BINS
        /\ obj.nHistogramBins <= LOCALDATAFILTER_MAX_HISTOGRAM_BINS
        /\ \/ obj.nHistogramBins \in {LOCALDATAFILTER_MIN_HISTOGRAM_BINS,
                                     LOCALDATAFILTER_MAX_HISTOGRAM_BINS}
           \/ /\ obj.nHistogramBins * LOCALDATAFILTER_MIN_HISTOGRAM_BINS_PER_SUPERPIXEL
                   <= obj.superpixellation.nSuperpixels
              /\ (obj.nHistogramBins + 1) * LOCALDATAFILTER_MIN_HISTOGRAM_BINS_PER_SUPERPIXEL
                   > obj.superpixellation.nSuperpixels

(***************************************************************************)
(* Properties of disableOutput.                                            *)
(***************************************************************************)
\* The stages that produce the image, and the stage before them.
OutputStages ==
    {"INITIALIZE_OUTPUT", "FILL_OUTPUT", "FINALIZE_OUTPUT", "LAB2RGB"}

LastComputingStage(c) ==
    CASE c = "SLIC" -> "CREATE_SUPERPIXEL_OBJECTS"
      [] c = "LocalDataFilter" -> "FILTER_SUPERPIXELS"
      [] c = "MidtoneFilter" -> "CREATE_LAB_IMAGE"
      [] OTHER -> "none"

\* Whether the data result of a finished object can be retrieved.
DataResultAvailable(c, o) ==
    CASE c = "SLIC" ->
            /\ SLIC_outputSuperpixellation(o).ok
            /\ Superpixellation(o).nSuperpixels = kParam
            /\ o.superpixels # NULL /\ o.clusterLabels # NULL
      [] c = "LocalDataFilter" ->
            /\ SuperpixelFilter_outputFilteredSuperpixellation(o).ok
            /\ o.superpixellation # NoSuperpixellation
            /\ o.selectedSuperpixels # NULL /\ o.selectedPixels # NULL
      [] OTHER -> TRUE

\* C27: once output is disabled it stays disabled through every call,
\* initialize included; an object with output disabled leaves its last
\* computing stage for END and enters no output stage; output() fails in
\* every such state; and when such an object becomes done its data result
\* can be retrieved.
C27_DisableOutputIsPermanent ==
    [][~obj.outputIsEnabled =>
          /\ ~obj'.outputIsEnabled
          /\ (kind = "LocalDataFilter" => ~obj'.superpixelGenerator.outputIsEnabled)
          /\ (kind # "Rgb2LabGreyAlgorithm" /\ obj.progress \notin OutputStages) =>
                obj'.progress \notin OutputStages
          /\ (/\ kind # "Rgb2LabGreyAlgorithm"
              /\ obj.progress = LastComputingStage(kind)
              /\ ret'.op = "increment"
              /\ obj'.progress # obj.progress) => obj'.progress = "END"
          /\ \A imageOk \in BOOLEAN :
                /\ ~OutputOf(kind, obj, imageOk).ok
                /\ OutputOf(kind, obj, imageOk).image = "null"
                /\ ~OutputOf(kind, obj', imageOk).ok
          /\ (obj'.finished /\ ~obj.finished /\ ~obj'.failed) =>
                DataResultAvailable(kind, obj')]_vars

\* A filter whose output was disabled before it was initialized has run to
\* END, output() has been refused and the filtered superpixellation has been
\* handed out.
C27_Witness ==
    /\ kind = "LocalDataFilter" /\ ~obj.outputIsEnabled
    /\ obj.finished /\ ~obj.failed /\ obj.progress = "END"
    /\ obj.outputImage = "null"
    /\ ret.op = "outputFilteredSuperpixellation" /\ ret.ok
    /\ run.initialized /\ run.reportedDone

(***************************************************************************)
(* Properties of the heap's handles.                                       *)
(***************************************************************************)
\* The handle table and the position table are inverse to each other on the
\* elements in the heap, and the handles of removed elements are invalid.
HandlesConsistent(o) ==
    /\ \A p \in 0 .. (o.heap.n - 1) :
          /\ o.heap.aToIndex[p] \in 0 .. (o.heap.nIndex - 1)
          /\ o.heap.indexToA[o.heap.aToIndex[p]] = p
    /\ \A i \in heapHandles(o.heap) :
          /\ o.heap.indexToA[i] \in 0 .. (o.heap.n - 1)
          /\ o.heap.aToIndex[o.heap.indexToA[i]] = i
    /\ \A i \in o.removed : o.heap.indexToA[i] = BINARYHEAP_INVALID_INDEX
    /\ heapHandles(o.heap) = (0 .. (o.heap.nIndex - 1)) \ o.removed

\* C28: for any interleaving of add, remove, increase and decrease, add
\* returns and its handle is the number of insertions made before it, the
\* handle of every element in the heap maps to its position and the position
\* back to the handle, the handle of a removed element is invalid, and no
\* table is indexed outside its bounds.
C28_HandlesAndBounds ==
    kind = "BinaryHeap" =>
        /\ pc = "ready"
        /\ ~obj.outOfBounds
        /\ ret.op = "add" => obj.handle = obj.insertions - 1
        /\ HandlesConsistent(obj)

\* An add has stopped at indexToA[nIndex]: the heap holds fewer elements
\* than were ever inserted, so add did not resize, and the handle table is
\* full.
C28_Witness ==
    /\ kind = "BinaryHeap" /\ pc = "stuck" /\ obj.outOfBounds
    /\ obj.heap.n < obj.heap.nIndex
    /\ obj.heap.n + 1 <= ArrLen(obj.heap.a)
    /\ obj.heap.nIndex = ArrLen(obj.heap.indexToA)
    /\ obj.removed # {}

\* The part of C28 that holds: as long as no add has indexed outside the
\* handle table, handles are insertion counts and the two tables agree.
HandlesConsistentInBounds ==
    (kind = "BinaryHeap" /\ pc = "ready" /\ ~obj.outOfBounds) =>
        /\ ret.op = "add" => obj.handle = obj.insertions - 1
        /\ obj.heap.nIndex = obj.insertions
        /\ HandlesConsistent(obj)

(***************************************************************************)
(* Properties of the stages of the LocalDataFilter.                        *)
(***************************************************************************)
FilterStageIndex(progress) ==
    CHOOSE i \in 1 .. Len(LocalDataFilterProgress) : LocalDataFilterProgress[i] = progress

\* The stages whose cursor k runs over the superpixels.
FilterLoopingStages ==
    {"COLLECT_STATISTICS", "NORMALIZE_STATISTICS", "CONSTRUCT_HISTOGRAM",
     "FILTER_SUPERPIXELS", "FILL_OUTPUT"}

\* C29: the stage of a LocalDataFilter changes only by initialize (to START)
\* or, in a call of increment (one that does not return included), to the
\* next stage of the declared order, where
\* RGB2LAB is entered exactly when the basis is the external map and the
\* output stages exactly when output is enabled.  GENERATE_SUPERPIXELS is
\* left only after the generator's Superpixellation has been retrieved, and a
\* looping stage only after its cursor has covered all superpixels.
C29_FilterStageOrder ==
    [][(kind = "LocalDataFilter" /\ obj'.progress # obj.progress) =>
          IF ret'.op = "initialize"
          THEN obj'.progress = "START"
          ELSE /\ ret'.op = "increment" \/ pc' = "stuck"
               /\ obj.k = LocalDataFilter_getLoopLimit(obj)
               /\ obj.progress \in FilterLoopingStages =>
                     /\ obj.superpixellation # NoSuperpixellation
                     /\ obj.k = obj.superpixellation.nSuperpixels
               /\ CASE obj.progress = "GENERATE_SUPERPIXELS" ->
                          /\ obj.isSuperpixelGenerationFinished
                          /\ obj.superpixellation # NoSuperpixellation
                          /\ obj.superpixelGenerator.finished
                          /\ obj'.progress = IF obj.basis = "EXTERNAL"
                                             THEN "RGB2LAB" ELSE "COLLECT_STATISTICS"
                    [] obj.progress = "FILTER_SUPERPIXELS" ->
                          obj'.progress = IF obj.outputIsEnabled
                                          THEN "INITIALIZE_OUTPUT" ELSE "END"
                    [] OTHER ->
                          FilterStageIndex(obj'.progress)
                             = FilterStageIndex(obj.progress) + 1]_vars

\* A finished run of a filter with the external basis that went through
\* RGB2LAB and the output stages.
C29_Witness ==
    /\ kind = "LocalDataFilter" /\ obj.basis = "EXTERNAL"
    /\ obj.finished /\ ~obj.failed /\ obj.progress = "END"
    /\ obj.outputImage = "valid" /\ obj.lStarSelectionMap # "null"

(***************************************************************************)
(* Properties of the seeding.                                              *)
(***************************************************************************)
\* C30: for every image size and every kParam, the initialisation grid has
\* at least kParam squares, distinct cluster indices are mapped to distinct
\* squares of the grid, and every seed, before and after the shift to the
\* neighbour of lowest gradient, is a pixel of the image.
C30_OneCenterPerSquare ==
    (kind = "Seed" /\ obj.seeds # NULL) =>
        /\ pc = "ready"
        /\ obj.grid.lengthInSSquares >= obj.kParam
        /\ \A k \in DOMAIN obj.seeds :
              /\ obj.seeds[k].square \in 0 .. (obj.grid.lengthInSSquares - 1)
              /\ InImage(obj.width, obj.height, obj.seeds[k].x, obj.seeds[k].y)
              /\ InImage(obj.width, obj.height,
                         obj.currentCenters[k].x, obj.currentCenters[k].y)
        /\ \A j, k \in DOMAIN obj.seeds :
              j # k => obj.seeds[j].square # obj.seeds[k].square

\* A 4 by 2 image seeded with three clusters: S is 2, the grid has two
\* squares, and two clusters share a square although the image has more
\* pixels than clusters.
C30_Witness ==
    /\ kind = "Seed" /\ pc = "ready" /\ ret.op = "initializeCenters"
    /\ obj.width = 4 /\ obj.height = 2 /\ obj.kParam = 3
    /\ obj.grid.S = 2 /\ obj.grid.lengthInSSquares = 2
    /\ \E j, k \in DOMAIN obj.seeds : j # k /\ obj.seeds[j].square = obj.seeds[k].square

\* The part of C30 that holds: when the grid has at least kParam squares,
\* the clusters get distinct squares of the grid and every seed, before and
\* after the shift, is a pixel of the image.
SeedsValidOnLargeGrid ==
    (kind = "Seed" /\ obj.seeds # NULL
       /\ obj.grid.lengthInSSquares >= obj.kParam) =>
        /\ pc = "ready"
        /\ \A k \in DOMAIN obj.seeds :
              /\ obj.seeds[k].square \in 0 .. (obj.grid.lengthInSSquares - 1)
              /\ InImage(obj.width, obj.height, obj.seeds[k].x, obj.seeds[k].y)
              /\ InImage(obj.width, obj.height,
                         obj.currentCenters[k].x, obj.currentCenters[k].y)
        /\ \A j, k \in DOMAIN obj.seeds :
              j # k => obj.seeds[j].square # obj.seeds[k].square

(***************************************************************************)
(* Properties of SLIC that do not depend on where the calls end.           *)
(***************************************************************************)
\* The data a SLIC object holds at done.
DataState(s) ==
    [clusterLabels |-> s.clusterLabels,
     connectedComponentLabels |-> s.connectedComponentLabels,
     connectedComponentClassifications |-> s.connectedComponentClassifications,
     nPixelsPerCluster |-> s.nPixelsPerCluster,
     sortedPixels |-> s.sortedPixels,
     superpixels |-> s.superpixels]

\* C31: the data state SLIC reaches at done does not depend on the
\* granularity: whenever the run with one call per stage has reached done,
\* the run with the granularities of the build has not stopped returning,
\* and once it is done too it holds the same labels, component ids,
\* classifications, pixel counts, sorted pixels and superpixels.
C31_GranularityIndependent ==
    (kind = "Granularity" /\ obj.coarse.finished) =>
        /\ pc = "ready"
        /\ obj.fine.finished => DataState(obj.fine) = DataState(obj.coarse)

\* The run with one call per stage is done, the run with cluster
\* granularity 1 is in the reassignment stage with no component kept and
\* its call has not returned.
C31_Witness ==
    /\ kind = "Granularity" /\ pc = "stuck"
    /\ obj.coarse.finished
    /\ obj.fine.progress = "REASSIGN_CONNECTED_COMPONENTS"
    /\ \A c \in DOMAIN obj.fine.connectedComponentClassifications :
          obj.fine.connectedComponentClassifications[c] = 0
    /\ \E c \in DOMAIN obj.coarse.connectedComponentClassifications :
          obj.coarse.connectedComponentClassifications[c] = 1

\* The part of C31 that holds for two clusters: two runs that both reach
\* done hold the same data.
SameDataWhenBothDone ==
    (kind = "Granularity" /\ obj.coarse.finished /\ obj.fine.finished) =>
        DataState(obj.fine) = DataState(obj.coarse)

\* nPixelsPerCluster[c] is the number of pixels labelled c, for every c.
CountsAgree(s) ==
    /\ \A c \in Clusters :
          /\ s.nPixelsPerCluster[c] = Cardinality(PixelsLabelled(s.clusterLabels, c))
          /\ s.nPixelsPerCluster[c] >= 0
    /\ prefixSum(s.nPixelsPerCluster, kParam - 1) = pixelCount

\* The stages from the end of K_MEANS_UPDATE_CENTERS to the construction of
\* the superpixels.
CountsInUse(s) ==
    /\ ~s.failed /\ s.clusterLabels # NULL
    /\ \/ s.progress = "K_MEANS_UPDATE_CENTERS" /\ s.k = pixelCount
       \/ s.progress \in {"K_MEANS_ASSESS_ITERATION", "FIND_CONNECTED_COMPONENTS",
                          "CLASSIFY_CONNECTED_COMPONENTS",
                          "REASSIGN_CONNECTED_COMPONENTS",
                          "SORT_PIXELS_AS_SUPERPIXELS", "CREATE_SUPERPIXEL_OBJECTS"}

\* The object a call of the reassignment stage starts from, when the next
\* call of increment is one.
ReassignmentStarts(s) ==
    IF s.progress = "CLASSIFY_CONNECTED_COMPONENTS"
    THEN [s EXCEPT !.progress = "REASSIGN_CONNECTED_COMPONENTS", !.k = 0,
                   !.visited = Fill(@, 0)]
    ELSE s

ReassignmentIsNext(s) ==
    /\ ~s.failed
    /\ \/ s.progress = "CLASSIFY_CONNECTED_COMPONENTS" /\ s.k = kParam
       \/ s.progress = "REASSIGN_CONNECTED_COMPONENTS" /\ s.k < pixelCount

CountsAgreeAfter(s, endPx) ==
    LET r == reassignConnectedComponents(s, endPx)
    IN  r.diverges \/ CountsAgree(r.s)

\* C32: from the end of a K_MEANS_UPDATE_CENTERS stage until the superpixels
\* are constructed, and after every pixel the reassignment stage has
\* processed, nPixelsPerCluster[c] is the number of pixels labelled c for
\* every cluster c, no entry is negative, and the entries sum to the pixel
\* count of the image.
C32_CountsMatchLabels ==
    (kind = "SLIC" /\ pc = "ready") =>
        /\ CountsInUse(obj) => CountsAgree(obj)
        /\ ReassignmentIsNext(obj) =>
              \A endPx \in ReassignmentStarts(obj).k .. pixelCount :
                  CountsAgreeAfter(ReassignmentStarts(obj), endPx)

\* A call of the reassignment stage has given a pixel of a discarded
\* component of cluster 1 the label 0: cluster 0 has gained a pixel.
C32_Witness ==
    /\ kind = "SLIC" /\ pc = "ready" /\ ret.op = "increment"
    /\ obj.progress = "REASSIGN_CONNECTED_COMPONENTS" /\ obj.k > 0
    /\ \E p \in 0 .. (obj.k - 1) :
          /\ obj.connectedComponentClassifications[obj.connectedComponentLabels[p]] = 0
          /\ obj.clusterLabels[p] = 0
    /\ obj.nConnectedComponents > kParam
    /\ CountsAgree(obj)

(***************************************************************************)
(* Properties of the order of the heap.                                    *)
(***************************************************************************)
\* x does not come before y in the order of removal: its cluster index is
\* larger, or the same with a size that is not larger.
NotBefore(x, y) ==
    /\ x.cluster >= y.cluster
    /\ x.cluster = y.cluster => x.size <= y.size

\* No element has higher priority than its parent.
HeapOrdered(h) ==
    \A i \in 1 .. (h.n - 1) : NotBefore(h.a[i], h.a[heapParent(i)])

IncrementAfterDone ==
    /\ pc = "ready" /\ run.reportedDone /\ obj.finished /\ ~obj.failed
    /\ ret'.op = "increment" \/ pc' = "stuck"

\* The call changes nothing, writes true to its finished parameter and
\* leaves failed clear, so that the outputs succeed as before.
ChangesNothing ==
    /\ pc' = "ready"
    /\ obj' = obj
    /\ ret'.fSet /\ ret'.f
    /\ ~obj'.failed
    /\ kind = "SLIC" =>
          SLIC_outputSuperpixellation(obj').ok = SLIC_outputSuperpixellation(obj).ok

\* C34: a call of increment on an instance that has already reported done
\* changes nothing (stage, cursor, data, finished and failed), sets the
\* finished parameter to true and does not mark the instance failed, so
\* that a following output still succeeds; for every class of algorithm.
C34_IncrementAfterDone ==
    [][(kind \in Kinds /\ IncrementAfterDone) => ChangesNothing]_vars

\* A Rgb2LabGreyAlgorithm that reported done at its fourth call has been
\* incremented once more: its progress has moved to 5.
C34_Witness ==
    /\ kind = "Rgb2LabGreyAlgorithm" /\ pc = "ready"
    /\ run.reportedDone /\ obj.finished /\ ~obj.failed
    /\ ret.op = "increment" /\ obj.progress = 5

\* The part of C34 that holds: SLIC, LocalDataFilter and MidtoneFilter
\* refuse the call and change nothing.
RefusedAfterDone ==
    [][(kind \in {"SLIC", "LocalDataFilter", "MidtoneFilter"} /\ IncrementAfterDone) =>
          ChangesNothing /\ ~ret'.ok]_vars

\* A SLIC object that is done has refused a call of increment.
RefusedAfterDoneWitness ==
    /\ kind = "SLIC" /\ pc = "ready" /\ run.reportedDone /\ obj.finished
    /\ ret.op = "increment" /\ ~ret.ok /\ ret.fSet /\ ret.f

\* The stages of the filter that score or select superpixels.
ScoringStages ==
    {"RGB2LAB", "COLLECT_STATISTICS", "NORMALIZE_STATISTICS", "CONSTRUCT_HISTOGRAM",
     "CHOOSE_OTSU_THRESHOLD", "FILTER_SUPERPIXELS"}

\* C35: if the generator's increment or its outputSuperpixellation returns
\* failure, the filter's increment returns failure in that same call and
\* the filter's failed flag is set; afterwards the filter stays failed,
\* never enters a scoring stage and never reports done.
C35_GeneratorFailurePropagates ==
    [][kind = "FilterOfGenerator" =>
          /\ (run'.generatorFailed /\ ~run.generatorFailed) =>
                 /\ ret'.op = "increment" /\ ~ret'.ok
                 /\ obj'.failed
          /\ run'.generatorFailed =>
                 /\ obj'.failed /\ ~obj'.finished
                 /\ obj'.progress \notin ScoringStages
                 /\ ~run'.reportedDone
                 /\ ret'.op = "increment" /\ ~ret'.ok /\ ~(ret'.fSet /\ ret'.f)]_vars

\* The generator had finished and its outputSuperpixellation returned
\* failure: the filter is failed in GENERATE_SUPERPIXELS without a
\* Superpixellation, and has refused a further call of increment.
C35_Witness ==
    /\ kind = "FilterOfGenerator" /\ pc = "ready"
    /\ run.generatorFailed /\ obj.failed
    /\ obj.superpixelGenerator.finished /\ ~obj.superpixelGenerator.failed
    /\ obj.progress = "GENERATE_SUPERPIXELS"
    /\ ~obj.isSuperpixelGenerationFinished
    /\ ret.op = "increment" /\ ~ret.ok /\ ~ret.fSet

\* The generator's increment returned failure in the middle of generation.
GeneratorIncrementFailed ==
    /\ kind = "FilterOfGenerator" /\ pc = "ready"
    /\ run.generatorFailed /\ obj.failed
    /\ obj.superpixelGenerator.failed
    /\ obj.superpixelGenerator.progress = "FIND_CONNECTED_COMPONENTS"

(***************************************************************************)
(* Properties of the scratch arrays of the reassignment stage.             *)
(***************************************************************************)
\* The pixels one breadth-first search of SLIC::reassignConnectedComponents
\* writes to visitedPx, in the order of writing, up to the first write past
\* the end of the array.
RECURSIVE reassignSearchLog(_, _, _)
reassignSearchLog(s, px0, log) ==
    LET popped == IF s.unvisitedPixels # << >>
                  THEN popUnvisited(s.unvisitedPixels, s.visited)
                  ELSE [px |-> px0, queue |-> s.unvisitedPixels]
        px == popped.px
        nb == reassignNeighbours(s, fourNeighbours(px), popped.queue)
        s1 == [s EXCEPT !.unvisitedPixels = nb.queue, !.visited[px] = 1]
    IN  IF nb.done \/ Len(log) >= pixelCount
        THEN Append(log, px)
        ELSE reassignSearchLog(s1, px, Append(log, px))

NoFlagSet(s) == \A p \in Pixels : s.visited[p] = 0

\* The search for pixel px of a reassignment stage that starts from s:
\* no flag is set when it starts, its log stays within visitedPx and names
\* no pixel twice, and no flag is set when it has ended.
SearchKeepsScratch(s, px) ==
    LET before == reassignConnectedComponents(s, px)
        after == reassignConnectedComponents(s, px + 1)
        log == reassignSearchLog([before.s EXCEPT !.unvisitedPixels = << px >>],
                                 SUPERPIXELLATION_NONE_LABEL, << >>)
    IN  (/\ ~before.diverges
         /\ s.connectedComponentClassifications[s.connectedComponentLabels[px]] = 0)
        => /\ NoFlagSet(before.s)
           /\ Len(log) <= pixelCount
           /\ \A i, j \in 1 .. Len(log) : log[i] = log[j] => i = j
           /\ ~after.diverges
           /\ NoFlagSet(after.s)

SomeComponentKept(s) ==
    \E c \in 0 .. (s.nConnectedComponents - 1) : s.connectedComponentClassifications[c] = 1

\* C36: in the reassignment stage, all visited flags are false at the start
\* of every pixel's breadth-first search, during one search the index into
\* visitedPx never exceeds pixelCount - 1 and no pixel is logged twice, and
\* after the search every flag it set has been cleared.
C36_ScratchRestored ==
    (kind = "SLIC" /\ pc = "ready" /\ ReassignmentIsNext(obj)) =>
        \A px \in ReassignmentStarts(obj).k .. (pixelCount - 1) :
            SearchKeepsScratch(ReassignmentStarts(obj), px)

\* The reassignment stage is next, no component is kept, and the search for
\* the first pixel logs its last pixel again and again until the index
\* passes the end of visitedPx.
C36_Witness ==
    /\ kind = "SLIC" /\ pc = "ready"
    /\ obj.progress = "CLASSIFY_CONNECTED_COMPONENTS" /\ obj.k = kParam /\ ~obj.failed
    /\ ~SomeComponentKept(obj)
    /\ LET log == reassignSearchLog([ReassignmentStarts(obj) EXCEPT !.unvisitedPixels = << 0 >>],
                                    SUPERPIXELLATION_NONE_LABEL, << >>)
       IN  Len(log) = pixelCount + 1 /\ log[pixelCount] = log[pixelCount + 1]

\* The part of C36 that holds: when some component is kept, every search
\* keeps the scratch arrays as C36 states.
ScratchRestoredWhenComponentKept ==
    (kind = "SLIC" /\ pc = "ready" /\ ReassignmentIsNext(obj) /\ SomeComponentKept(obj)) =>
        \A px \in ReassignmentStarts(obj).k .. (pixelCount - 1) :
            SearchKeepsScratch(ReassignmentStarts(obj), px)

\* A search has passed through a discarded pixel to reach a kept component:
\* its log holds two pixels.
LongSearch ==
    /\ kind = "SLIC" /\ pc = "ready" /\ ReassignmentIsNext(obj) /\ SomeComponentKept(obj)
    /\ \E px \in ReassignmentStarts(obj).k .. (pixelCount - 1) :
          LET before == reassignConnectedComponents(ReassignmentStarts(obj), px)
          IN  /\ ~before.diverges
              /\ obj.connectedComponentClassifications[obj.connectedComponentLabels[px]] = 0
              /\ Len(reassignSearchLog([before.s EXCEPT !.unvisitedPixels = << px >>],
                                       SUPERPIXELLATION_NONE_LABEL, << >>)) >= 2

(***************************************************************************)
(* Properties of the image handed out by output.                           *)
(***************************************************************************)
\* C37: whenever output returns success, the raster image it hands out is
\* not null; a second call after a successful one does not report success
\* with a null image.
C37_OutputImageNotNull ==
    (kind \in Kinds /\ pc = "ready" /\ ret.op = "output" /\ ret.ok) => ret.image # "null"

\* A second call of output after a successful one has returned success and
\* a null image.
C37_Witness ==
    /\ kind \in Kinds /\ pc = "ready"
    /\ ret.op = "output" /\ ret.ok /\ ret.image = "null"
    /\ obj.finished /\ ~obj.failed /\ obj.outputIsEnabled /\ obj.outputImage = "null"

\* The part of C37 that holds: a successful call of output made while the
\* object holds its output image (the first one after the object has
\* finished) hands out that image, and the pointer is not null.
FirstOutputHandsOutImage ==
    [][(kind \in Kinds /\ pc = "ready" /\ ret'.op = "output" /\ ret'.ok
        /\ (kind # "Rgb2LabGreyAlgorithm" => obj.outputImage # "null"))
       => /\ ret'.image # "null"
          /\ kind # "Rgb2LabGreyAlgorithm" => ret'.image = obj.outputImage]_vars

\* A call of output has handed out the image of a finished object.
ImageHandedOut ==
    /\ kind \in Kinds /\ pc = "ready"
    /\ ret.op = "output" /\ ret.ok /\ ret.image = "valid" /\ obj.outputImage = "null"

(***************************************************************************)
(* Properties of the worker thread.                                        *)
(***************************************************************************)
\* C38: the algorithm run by the worker thread is never deleted before the
\* previous run() has returned, by a restart through processImages or by
\* the destructor, in any interleaving of the two threads; and m_abort is
\* never read by one thread while the other writes it without the mutex.
C38_AlgorithmOutlivesRun ==
    [][kind = "AlgorithmThread" =>
          /\ obj'.deleted # obj.deleted => ~obj.running
          /\ ~AbortRace']_vars

\* processImages has deleted the algorithm of a run that had not returned
\* and has started the next one; run() has made a call through alg after
\* the deletion and is still running.
C38_Witness ==
    /\ kind = "AlgorithmThread"
    /\ obj.running /\ obj.ub /\ 1 \in obj.deleted /\ obj.alg = 2
    /\ run.number = 1 /\ ~run.ended

\* The destructor has deleted the algorithm of a run that had not returned
\* and waits for run(), which has called through the null pointer.
DeletedByDestructor ==
    /\ kind = "AlgorithmThread"
    /\ obj.ctl = "destructor_wait" /\ obj.running /\ obj.ub
    /\ obj.alg = 0 /\ obj.deleted = {1} /\ pc = "stuck"

\* stopProcess holds the mutex and is about to write m_abort while run()
\* is about to read it.
AbortReadDuringWrite ==
    /\ kind = "AlgorithmThread"
    /\ obj.ctl = "stopProcess_write" /\ obj.locked /\ pc = "checkIncrement"
    /\ obj.deleted = {}

\* The signals of a run that has ended: sendOutput once after the algorithm
\* reached done and output succeeded, or sendFail once after a call that
\* failed, or neither after run() has found m_abort set; no sendStatus
\* after either.
SignalsOfEndedRun ==
    /\ << run.sendOutput, run.sendFail >> \in {<< 1, 0 >>, << 0, 1 >>, << 0, 0 >>}
    /\ run.sendOutput = 1 => ret.finished /\ ret.ok /\ ~run.aborted
    /\ run.sendFail = 1 => ~ret.ok /\ ~run.aborted
    /\ run.sendOutput + run.sendFail = 0 => run.aborted
    /\ ~run.statusAfterEnd

\* C39: every run of the worker thread ends in exactly one of three ways:
\* it emits sendOutput once (the algorithm reached done and output
\* succeeded), it emits sendFail once (initialize, increment or output
\* failed), or, if stopProcess was called during the run, it emits neither;
\* it never emits both, and no sendStatus after sendOutput or sendFail.
\* Stated for the runs whose algorithm was not deleted, with stopProcess
\* counted once it has set m_abort.
C39_OneEndingPerRun ==
    (kind = "AlgorithmThread" /\ run.ended /\ obj.deleted = {}) =>
        /\ SignalsOfEndedRun
        /\ run.stopCalled => run.sendOutput + run.sendFail = 0

\* stopProcess was called, and had set m_abort, while run() was between its
\* last test of m_abort and emit sendOutput; the run has emitted sendOutput.
C39_Witness ==
    /\ kind = "AlgorithmThread" /\ pc = "idle"
    /\ run.ended /\ run.number = 1 /\ obj.deleted = {} /\ ~obj.ub
    /\ run.stopCalled /\ obj.m_abort /\ obj.ctl = "idle"
    /\ run.sendOutput = 1 /\ run.sendFail = 0 /\ run.sendStatus = MaxThreadIncrements

\* The part of C39 that holds, in every run, also one whose algorithm was
\* deleted under it: one of the three endings, never both signals, and no
\* sendStatus after sendOutput or sendFail; a run ends with neither signal
\* exactly when run() has read m_abort as set.
EndingsOfEveryRun ==
    (kind = "AlgorithmThread" /\ run.ended) =>
        /\ SignalsOfEndedRun
        /\ run.aborted => run.sendOutput + run.sendFail = 0

\* While a run goes on, at most one of the two signals has been emitted.
NeverBothSignals ==
    kind = "AlgorithmThread" =>
        /\ run.sendOutput + run.sendFail <= 1
        /\ ~run.statusAfterEnd
        /\ (~run.ended /\ run.number > 0 /\ pc # "idle") => run.sendOutput + run.sendFail = 0

\* A run that stopProcess aborted has ended with neither signal.
AbortedRun ==
    /\ kind = "AlgorithmThread" /\ run.ended /\ run.aborted /\ run.stopCalled
    /\ run.sendOutput + run.sendFail = 0 /\ run.sendStatus = 1 /\ obj.deleted = {}

\* A run has ended with sendFail after increment failed.
FailedRun ==
    /\ kind = "AlgorithmThread" /\ run.ended /\ ~run.aborted /\ ~run.stopCalled
    /\ run.sendFail = 1 /\ ret.increments = 2 /\ ~ret.ok /\ obj.deleted = {}

====
